---- MODULE Spec2Model ----
(***************************************************************************)
(* Model of the infix sample's breadth-first test generator:                *)
(*   bfs.h          lazy Result<T> streams and the CatString rope           *)
(*   infix_test.cc  progspace: valid_expression / valid_assignment /        *)
(*                  valid_calculation, CSData, GroupPrecedence and the      *)
(*                  *_strings renderer                                      *)
(*   parse.cc       the tokenizer of the infix reader                       *)
(*   writers.cc     write_infix, the infix writer                           *)
(*                                                                          *)
(* Text is a sequence of one-character strings, so that rendering,         *)
(* tokenizing and parsing are computed and not assumed.  A                  *)
(* std::function is a record naming the lambda (field k) together with the  *)
(* values the lambda captured; Force calls a std::function<Result<T>()>,    *)
(* Apply calls a std::function<R(T)>.                                       *)
(***************************************************************************)
EXTENDS Integers, Sequences, FiniteSets, TLC

VARIABLES
  input,   \* the arguments the run was started with
  pc,      \* position of the driving code
  res,     \* the Result<T> under traversal
  it,      \* first iterator obtained from res (Result<T>::iterator)
  out,     \* values read through it, in order
  it2,     \* second iterator obtained from the same res
  out2,    \* values read through it2, in order
  stack,   \* operator<<(ostream, CatString): the explicit stack
  os,      \* operator<<(ostream, CatString): the characters written so far
  curr_bfs_depth, \* main (bfs_test): the depth being explored
  ok_count,       \* main (bfs_test): the candidates accepted so far
  status,         \* main (bfs_test): "running", "return 0" or "return 1"
  check,          \* main (bfs_test): what the loop body found for the last candidate
  heap            \* the NodeDef objects created so far and those a stream holds

driverVars == <<curr_bfs_depth, ok_count, status, check, heap>>
vars == <<input, pc, res, it, out, it2, out2, stack, os, curr_bfs_depth, ok_count, status,
          check, heap>>

\* the variables of main (bfs_test) before the loop is entered
NoCheck == [done |-> FALSE]
\* no object created yet
NoHeap == [nodes |-> <<>>, held |-> {}]
DriverIdle ==
  /\ curr_bfs_depth = 0
  /\ ok_count = 0
  /\ status = "running"
  /\ check = NoCheck
  /\ heap = NoHeap

(***************************************************************************)
(* Bounds of the model.                                                     *)
(***************************************************************************)
MaxRopeDepth == 1   \* nesting of the ropes a and b drawn for CatString
MaxLen == 2         \* length of the input streams drawn for Result<T>
MaxDepth == 1       \* nesting depth passed to the generator
MaxOps == 2         \* op_count passed to valid_calculation
MaxYield == 130     \* elements read from one stream before the consumer stops
MaxRenderDepth == 2 \* nesting depth of the generated Calculations that are rendered
MaxCalcs == 20      \* Calculations rendered per (op_count, depth), from the front

Vals == {1, 2}                       \* element values of the drawn streams
FnOuts == {<<>>, <<1>>, <<2, 1>>}    \* sub-streams a drawn function may return

Range(q) == {q[i] : i \in 1..Len(q)}

(***************************************************************************)
(* bfs::Result<T>                                                           *)
(***************************************************************************)
Empty == [cell |-> FALSE]
Cell(value, next) == [cell |-> TRUE, value |-> value, next |-> next]
NilFn == [k |-> "nil"]
ConstFn(rhs) == [k |-> "const", rhs |-> rhs]
Single(value) == Cell(value, NilFn)
SingleThen(value, next) == Cell(value, next)
IsCell(r) == r.cell

RECURSIVE Force(_)
RECURSIVE Apply(_, _)
RECURSIVE Map(_, _)
RECURSIVE Concat(_, _)
RECURSIVE FlatMapScan(_, _, _)
RECURSIVE FlatMap(_, _)
RECURSIVE FromSeq(_)
RECURSIVE valid_expression(_, _)
RECURSIVE RefsLoop(_, _)
RECURSIVE expression_strings(_, _)
RECURSIVE cat_cssLoop(_, _)
RECURSIVE cscLoop(_, _, _, _)

Map(r, fn) ==
  IF IsCell(r)
  THEN Cell(Apply(fn, r.value), [k |-> "mapNext", next |-> r.next, fn |-> fn])
  ELSE Empty

\* concat that forgets the producer when the first stream is empty
Concat_dropsRhsOfEmpty(r, rhs_fn) ==
  IF ~IsCell(r)
  THEN Empty
  ELSE Cell(r.value, [k |-> "concatNext", next |-> r.next, rhs_fn |-> rhs_fn])

\* concat that runs the producer when the stream is built
Concat_runsProducerFirst(r, rhs_fn) ==
  IF ~IsCell(r)
  THEN Force(rhs_fn)
  ELSE Cell(r.value, [k |-> "concatNext", next |-> r.next, rhs_fn |-> ConstFn(Force(rhs_fn))])

Concat(r, rhs_fn) ==
  IF ~IsCell(r)
  THEN Force(rhs_fn)
  ELSE Cell(r.value, [k |-> "concatNext", next |-> r.next, rhs_fn |-> rhs_fn])

ConcatR(r, rhs) == Concat(r, ConstFn(rhs))

FlatMapScan(resv, current, fn) ==
  IF ~IsCell(resv) /\ IsCell(current)
  THEN FlatMapScan(Apply(fn, current.value), Force(current.next), fn)
  ELSE <<resv, current>>

\* flat_map whose deferred remainder restarts after the first input element
\* instead of after the elements the scan consumed
FlatMap_restAfterFirst(r, fn) ==
  IF ~IsCell(r)
  THEN Empty
  ELSE LET s == FlatMapScan(Empty, r, fn)
       IN IF IsCell(s[1])
          THEN Concat(s[1], [k |-> "flatMapRest", current |-> Force(r.next), fn |-> fn])
          ELSE Empty

\* flat_map after its while loop, s being <<res, current>>
FlatMapFound(s, fn) ==
  IF IsCell(s[1])
  THEN Concat(s[1], [k |-> "flatMapRest", current |-> s[2], fn |-> fn])
  ELSE Empty

FlatMap(r, fn) ==
  IF ~IsCell(r)
  THEN Empty
  ELSE FlatMapFound(FlatMapScan(Empty, r, fn), fn)

\* A stream holding the elements of xs, each cell deferring the rest.
FromSeq(xs) ==
  IF xs = <<>>
  THEN Empty
  ELSE SingleThen(Head(xs), [k |-> "seq", xs |-> Tail(xs)])

\* Result<T>::begin, iterator::operator!=, operator* and operator++
NoIter == [live |-> FALSE]
\* begin() that hands out the position of the iterator already in use
IterBegin_sharesCursor(r) == IF it.live THEN it ELSE [live |-> TRUE, result |-> r]
IterBegin(r) == [live |-> TRUE, result |-> r]
IterNotEnd(i) == i.live /\ IsCell(i.result)
IterAtEnd(i) == i.live /\ ~IsCell(i.result)
IterDeref(i) == i.result.value
IterIncr(i) == [live |-> TRUE, result |-> Force(i.result.next)]

\* for (auto v : r): the values of one complete traversal
RECURSIVE Traverse(_)
Traverse(r) == IF IsCell(r) THEN <<r.value>> \o Traverse(Force(r.next)) ELSE <<>>

(***************************************************************************)
(* bfs::CatString                                                           *)
(***************************************************************************)
CatView(s) == [v |-> "view", s |-> s]
CatStr(s) == [v |-> "str", s |-> s]
CatPair(lhs, rhs) == [v |-> "pair", first |-> lhs, second |-> rhs]
CatConcat(self, rhs) == CatPair(self, rhs)

\* the loop body pushing the halves of a pair the other way round
StrVisitTop_pushesFirstFirst(st, o) ==
  LET top == st[Len(st)]
      rest == SubSeq(st, 1, Len(st) - 1)
  IN IF top.v = "pair"
     THEN [stack |-> rest \o <<top.first, top.second>>, os |-> o]
     ELSE [stack |-> rest, os |-> o \o top.s]

\* one iteration of the while loop of operator<<; the top of the stack is its
\* last element
StrVisitTop(st, o) ==
  LET top == st[Len(st)]
      rest == SubSeq(st, 1, Len(st) - 1)
  IN IF top.v = "pair"
     THEN [stack |-> rest \o <<top.second, top.first>>, os |-> o]
     ELSE [stack |-> rest, os |-> o \o top.s]

RECURSIVE StrLoop(_, _)
StrLoop(st, o) ==
  IF st = <<>> THEN o
  ELSE LET n == StrVisitTop(st, o) IN StrLoop(n.stack, n.os)

CatToStr(c) == StrLoop(<<c>>, <<>>)

(***************************************************************************)
(* trieste::Node, as the generator builds it: a token type, the text of    *)
(* its location and its children.  clone() copies the subtree.             *)
(***************************************************************************)
Node(type, loc, kids) == [type |-> type, loc |-> loc, kids |-> kids]
Clone(n) == Node(n.type, n.loc, n.kids)
Expression(n) == Node("Expression", <<>>, <<n>>)
IntLit(text) == Node("Int", text, <<>>)
Ident(name) == Node("Ident", name, <<>>)
Ref(name) == Node("Ref", <<>>, <<Ident(name)>>)
TupleOf(kids) == Node("Tuple", <<>>, kids)
AppendOf(kids) == Node("Append", <<>>, kids)
Add(l, r) == Node("Add", <<"+">>, <<l, r>>)
Subtract(l, r) == Node("Subtract", <<"-">>, <<l, r>>)
Multiply(l, r) == Node("Multiply", <<"*">>, <<l, r>>)
Divide(l, r) == Node("Divide", <<"/">>, <<l, r>>)
TupleIdx(l, r) == Node("TupleIdx", <<".">>, <<l, r>>)
Assign(name, value) == Node("Assign", <<>>, <<Ident(name), value>>)
Calculation(assigns) == Node("Calculation", <<>>, assigns)
PushBack(parent, child) == Node(parent.type, parent.loc, Append(parent.kids, child))

foo == <<"f", "o", "o">>
bar == <<"b", "a", "r">>
ping == <<"p", "i", "n", "g">>
bnorg == <<"b", "n", "o", "r", "g">>
valid_names == <<foo, bar, ping, bnorg>>

\* Env is std::set<std::string>: iteration is in the order of std::string's
\* operator<, character by character
Alphabet == <<"a", "b", "c", "d", "e", "f", "g", "h", "i", "j", "k", "l", "m",
              "n", "o", "p", "q", "r", "s", "t", "u", "v", "w", "x", "y", "z">>
CharRank(c) == CHOOSE i \in 1..Len(Alphabet) : Alphabet[i] = c

RECURSIVE StringLess(_, _)
StringLess(a, b) ==
  IF b = <<>> THEN FALSE
  ELSE IF a = <<>> THEN TRUE
  ELSE IF Head(a) = Head(b) THEN StringLess(Tail(a), Tail(b))
  ELSE CharRank(Head(a)) < CharRank(Head(b))

RECURSIVE SetInOrder(_)
SetInOrder(env) ==
  IF env = {} THEN <<>>
  ELSE LET least == CHOOSE n \in env : \A m \in env \ {n} : StringLess(n, m)
       IN <<least>> \o SetInOrder(env \ {least})

(***************************************************************************)
(* progspace::valid_expression / valid_assignment / valid_calculation       *)
(***************************************************************************)
\* a for loop that puts each Reference in front of those made before it
RefsLoop_newestFirst(names, ref) ==
  IF names = <<>> THEN ref
  ELSE RefsLoop(Tail(names), Concat(Single(Expression(Ref(Head(names)))), ConstFn(ref)))

\* the for loop of the third lambda of the depth == 0 branch
RefsLoop(names, ref) ==
  IF names = <<>> THEN ref
  ELSE RefsLoop(Tail(names), Concat(ref, [k |-> "veRef", name |-> Head(names)]))

\* a depth-0 enumeration that offers a Reference to foo whatever the scope
valid_expression_refOutOfScope(env, depth) ==
  IF depth = 0
  THEN Concat(Concat(Concat(Concat(
         Single(Expression(IntLit(<<"0">>))),
         [k |-> "veOne"]),
         [k |-> "veRefs", env |-> env \cup {foo}]),
         [k |-> "veTuple0"]),
         [k |-> "veAppend0"])
  ELSE LET sub_expr == valid_expression(env, depth - 1)
       IN FlatMap(sub_expr, [k |-> "veLhs", sub_expr |-> sub_expr])

valid_expression(env, depth) ==
  IF depth = 0
  THEN Concat(Concat(Concat(Concat(
         Single(Expression(IntLit(<<"0">>))),
         [k |-> "veOne"]),
         [k |-> "veRefs", env |-> env]),
         [k |-> "veTuple0"]),
         [k |-> "veAppend0"])
  ELSE LET sub_expr == valid_expression(env, depth - 1)
       IN FlatMap(sub_expr, [k |-> "veLhs", sub_expr |-> sub_expr])

\* a lambda that yields Append(lhs) before Tuple(lhs)
veLhs_appendFirst(sub_expr, lhs) ==
  Concat(ConcatR(Single(Expression(AppendOf(<<Clone(lhs)>>))),
                 Single(Expression(TupleOf(<<lhs>>)))),
         [k |-> "veBin", sub_expr |-> sub_expr, lhs |-> lhs])

\* the lambda [sub_expr](auto lhs)
veLhs(sub_expr, lhs) ==
  Concat(ConcatR(Single(Expression(TupleOf(<<lhs>>))),
                 Single(Expression(AppendOf(<<Clone(lhs)>>)))),
         [k |-> "veBin", sub_expr |-> sub_expr, lhs |-> lhs])

\* the lambda [lhs](auto rhs) with the right operand of Add one level deeper
veRhs_addNestsRhs(lhs, rhs) ==
  ConcatR(ConcatR(ConcatR(ConcatR(ConcatR(ConcatR(
    Single(Expression(Add(Clone(lhs), Expression(TupleOf(<<Clone(rhs)>>))))),
    Single(Expression(Subtract(Clone(lhs), Clone(rhs))))),
    Single(Expression(Multiply(Clone(lhs), Clone(rhs))))),
    Single(Expression(Divide(Clone(lhs), Clone(rhs))))),
    Single(Expression(TupleOf(<<Clone(lhs), Clone(rhs)>>)))),
    Single(Expression(AppendOf(<<Clone(lhs), Clone(rhs)>>)))),
    Single(Expression(TupleIdx(Clone(lhs), Clone(rhs)))))

\* the lambda [lhs](auto rhs)
veRhs(lhs, rhs) ==
  ConcatR(ConcatR(ConcatR(ConcatR(ConcatR(ConcatR(
    Single(Expression(Add(Clone(lhs), Clone(rhs)))),
    Single(Expression(Subtract(Clone(lhs), Clone(rhs))))),
    Single(Expression(Multiply(Clone(lhs), Clone(rhs))))),
    Single(Expression(Divide(Clone(lhs), Clone(rhs))))),
    Single(Expression(TupleOf(<<Clone(lhs), Clone(rhs)>>)))),
    Single(Expression(AppendOf(<<Clone(lhs), Clone(rhs)>>)))),
    Single(Expression(TupleIdx(Clone(lhs), Clone(rhs)))))

valid_assignment(env, name, depth) ==
  FlatMap(valid_expression(env, depth), [k |-> "vaAssign", name |-> name])

\* the lambda [depth, name](auto pair) and, inside it, [calculation, env](auto assign)
vcSlot(depth, name, pair) ==
  Map(valid_assignment(pair[2], name, depth),
      [k |-> "vcPair", calculation |-> pair[1], env |-> pair[2]])

vcPair(calculation, env, assign) == <<PushBack(Clone(calculation), assign), env>>

RECURSIVE vcLoop(_, _, _, _)
vcLoop(assigns, i, op_count, depth) ==
  IF i < op_count
  THEN vcLoop(FlatMap(assigns, [k |-> "vcSlot", depth |-> depth, name |-> valid_names[i + 1]]),
              i + 1, op_count, depth)
  ELSE assigns

\* the local variable assigns of valid_calculation, when its for loop has ended
vcAssigns(op_count, depth) ==
  vcLoop(Single(<<Calculation(<<>>), {}>>), 0, op_count, depth)

valid_calculation(op_count, depth) ==
  Map(vcAssigns(op_count, depth), [k |-> "first"])

(***************************************************************************)
(* progspace::CSData, cat_cs, cat_css and GroupPrecedence                   *)
(***************************************************************************)
CSData(str, tuple_parens_omitted) ==
  [str |-> str, tuple_parens_omitted |-> tuple_parens_omitted]
CSParensOmitted(d) == CSData(d.str, TRUE)
\* CSData::concat that keeps the flag of the suffix only
CSConcat_flagOfOther(d, other) ==
  CSData(CatConcat(d.str, other.str), other.tuple_parens_omitted)

CSConcat(d, other) ==
  CSData(CatConcat(d.str, other.str), d.tuple_parens_omitted \/ other.tuple_parens_omitted)

\* CS{"..."sv} and CS{std::string(...)}
CSView(text) == Single(CSData(CatView(text), FALSE))
CSString(text) == Single(CSData(CatStr(text), FALSE))

cat_cs(lhs, rhs) == FlatMap(lhs, [k |-> "catPrefix", rhs |-> rhs])

cat_cssLoop(result, css) ==
  IF css = <<>> THEN result
  ELSE cat_cssLoop(cat_cs(result, Head(css)), Tail(css))

cat_css(css) == cat_cssLoop(CSView(<<>>), css)

RootLevel == -4       \* GroupPrecedence::curr_precedence of GroupPrecedence{}
TupleLevel == -3      \* tuple literals and append(...)
AddLevel == -2        \* Add, Subtract
MultiplyLevel == -1   \* Multiply, Divide
TupleIdxLevel == 0       \* TupleIdx

GroupPrecedence(curr_precedence, allow_assoc) ==
  [curr_precedence |-> curr_precedence, allow_assoc |-> allow_assoc]
DefaultGroupPrecedence == GroupPrecedence(RootLevel, FALSE)
with_precedence(self, precedence) == GroupPrecedence(precedence, self.allow_assoc)
with_assoc(self, allow_assoc_) == GroupPrecedence(self.curr_precedence, allow_assoc_)

\* wrap_group that never lets an operand chain with an operator of its own level
wrap_group_ignoresAssoc(self, precedence, fn) ==
  LET grouped == cat_css(<<CSView(<<"(">>),
                           Apply(fn, DefaultGroupPrecedence),
                           CSView(<<")">>)>>)
  IN IF precedence > self.curr_precedence
     THEN ConcatR(Apply(fn, with_assoc(with_precedence(self, precedence), FALSE)), grouped)
     ELSE grouped

\* wrap_group once grouped is built
wrap_group_result(self, precedence, fn, grouped) ==
  IF (precedence >= self.curr_precedence /\ self.allow_assoc)
       \/ (precedence > self.curr_precedence)
  THEN ConcatR(Apply(fn, with_assoc(with_precedence(self, precedence), FALSE)), grouped)
  ELSE grouped

wrap_group(self, precedence, fn) ==
  wrap_group_result(self, precedence, fn,
                    cat_css(<<CSView(<<"(">>),
                              Apply(fn, DefaultGroupPrecedence),
                              CSView(<<")">>)>>))

(***************************************************************************)
(* progspace::expression_strings / assign_strings / calculation_strings     *)
(***************************************************************************)
BinopTypes == {"TupleIdx", "Multiply", "Divide", "Add", "Subtract"}
LeafTypes == {"Int", "Float", "String", "Ident"}
\* "<unknown: ...>", returned for a node type the renderer does not know;
\* the text of the node between the brackets is left out
UnknownText == <<"<", "u", "n", "k", "n", "o", "w", "n", ">">>

BinopLevel(type) ==
  CASE type = "TupleIdx" -> TupleIdxLevel
    [] type \in {"Multiply", "Divide"} -> MultiplyLevel
    [] type \in {"Add", "Subtract"} -> AddLevel

\* the lambda [&](GroupPrecedence precedence) passed to wrap_group
binopBody(expression, precedence) ==
  cat_css(<<expression_strings(with_assoc(precedence, TRUE), expression.kids[1]),
            CSString(<<" ">> \o expression.loc \o <<" ">>),
            expression_strings(with_assoc(precedence, FALSE), expression.kids[2])>>)

\* the for loop of comma_sep_children
cscLoop(result, kids, first, precedence) ==
  IF kids = <<>> THEN result
  ELSE LET sep == IF first THEN result ELSE cat_cs(result, CSView(<<",", " ">>))
       IN cscLoop(cat_cs(sep, expression_strings(precedence, Head(kids))),
                  Tail(kids), FALSE, precedence)

\* comma_sep_children that makes the trailing comma mandatory at every size
comma_sep_children_alwaysTrailing(expression, precedence) ==
  cat_cs(cscLoop(CSView(<<>>), expression.kids, TRUE, precedence), CSView(<<",">>))

\* comma_sep_children with the trailing comma optional at every size
cscTrailing_alwaysOptional(expression, result) ==
  Concat(result, [k |-> "trailComma", result |-> result])

\* comma_sep_children after its for loop
cscTrailing(expression, result) ==
  IF Len(expression.kids) < 2
  THEN cat_cs(result, CSView(<<",">>))
  ELSE Concat(result, [k |-> "trailComma", result |-> result])

comma_sep_children(expression, precedence) ==
  cscTrailing(expression, cscLoop(CSView(<<>>), expression.kids, TRUE, precedence))

\* the lambda [=](bool parens_omitted) of the Tuple case
\* the two returns of that lambda, result being the children's strings
tupleParens(result, parens_omitted) ==
  IF parens_omitted
  THEN Map(result, [k |-> "parensOmitted"])
  ELSE cat_css(<<CSView(<<"(">>), result, CSView(<<")">>)>>)

tupleForm(precedence, expression, parens_omitted) ==
  tupleParens(comma_sep_children(expression,
                with_assoc(with_precedence(precedence, TupleLevel), FALSE)),
              parens_omitted)

expression_strings(precedence, expression0) ==
  LET inner == expression0.kids[1]
      expression == IF inner.type = "Ref" THEN inner.kids[1] ELSE inner
  IN CASE expression.type \in LeafTypes -> CSString(expression.loc)
       [] expression.type \in BinopTypes ->
            wrap_group(precedence, BinopLevel(expression.type),
                       [k |-> "binopBody", expression |-> expression])
       [] expression.type = "Tuple" ->
            LET parens_omitted ==
                  IF Len(expression.kids) > 1
                       /\ ((TupleLevel >= precedence.curr_precedence /\ precedence.allow_assoc)
                            \/ (TupleLevel > precedence.curr_precedence))
                  THEN ConcatR(Single(TRUE), Single(FALSE))
                  ELSE Single(FALSE)
            IN FlatMap(parens_omitted,
                       [k |-> "tupleForm", precedence |-> precedence, expression |-> expression])
       [] expression.type = "Append" ->
            cat_css(<<CSView(<<"a", "p", "p", "e", "n", "d", "(">>),
                      comma_sep_children(expression,
                        with_assoc(with_precedence(precedence, TupleLevel), FALSE)),
                      CSView(<<")">>)>>)
       [] OTHER -> CSString(UnknownText)

assign_strings(assign) ==
  cat_css(<<CSString(assign.kids[1].loc),
            CSView(<<" ", "=", " ">>),
            expression_strings(DefaultGroupPrecedence, assign.kids[2]),
            CSView(<<";">>)>>)

RECURSIVE csLoop(_, _)
csLoop(result, kids) ==
  IF kids = <<>> THEN result
  ELSE csLoop(cat_cs(result, assign_strings(Head(kids))), Tail(kids))

calculation_strings(calculation) == csLoop(CSView(<<>>), calculation.kids)

\* contains_tuple_ops that looks at the node it is given and not below it
contains_tuple_ops_rootOnly(node) == node.type \in {"Tuple", "Append", "TupleIdx"}

RECURSIVE contains_tuple_ops(_)
contains_tuple_ops(node) ==
  \/ node.type \in {"Tuple", "Append", "TupleIdx"}
  \/ \E i \in 1..Len(node.kids) : contains_tuple_ops(node.kids[i])

\* main (bfs_test): expect_failure for a Calculation and one of its candidates
ExpectFailure(calculation, csdata, config) ==
  \/ ~config.enable_tuples /\ contains_tuple_ops(calculation)
  \/ config.tuples_require_parens /\ csdata.tuple_parens_omitted


(***************************************************************************)
(* infix::parser (parse.cc): the rules of mode "start", tried in order at   *)
(* the current position.  A token is its type and its text.                 *)
(***************************************************************************)
Digits == {"0", "1", "2", "3", "4", "5", "6", "7", "8", "9"}
Alphas == Range(Alphabet) \cup {"_"}
WordChars == Digits \cup Alphas
Spaces == {" ", "\n", "\r", "\t"}
\* the characters a text may hold
TextChars == WordChars \cup Spaces \cup
             {"=", ",", ".", ";", "(", ")", "+", "-", "*", "/", "<", ">", "\""}

Token(t, s) == [t |-> t, s |-> s]

\* the length of the longest prefix of text made of characters of S
RECURSIVE SpanOf(_, _)
SpanOf(text, S) ==
  IF text # <<>> /\ Head(text) \in S THEN 1 + SpanOf(Tail(text), S) ELSE 0

Drop(text, n) == SubSeq(text, n + 1, Len(text))
StartsWith(text, p) == Len(text) >= Len(p) /\ SubSeq(text, 1, Len(p)) = p
\* \b after a word character: the next character is not a word character
BoundaryAt(text, n) == n = Len(text) \/ text[n + 1] \notin WordChars

\* [[:digit:]]+\.[[:digit:]]+(?:e[+-]?[[:digit:]]+)?\b ; 0 when there is no match
FloatMatch(text) ==
  LET i == SpanOf(text, Digits)
      afterDot == Drop(text, i + 1)
      f == SpanOf(afterDot, Digits)
      m == i + 1 + f
      afterE == Drop(text, m + 1)
      sign == IF afterE # <<>> /\ Head(afterE) \in {"+", "-"} THEN 1 ELSE 0
      x == SpanOf(Drop(afterE, sign), Digits)
      e == m + 1 + sign + x
  IN IF i = 0 \/ Len(text) <= i \/ text[i + 1] # "." \/ f = 0 THEN 0
     ELSE IF Len(text) > m /\ text[m + 1] = "e" /\ x > 0 /\ BoundaryAt(text, e) THEN e
     ELSE IF BoundaryAt(text, m) THEN m
     ELSE 0

\* "[^"]*"
StringMatch(text) ==
  IF text = <<>> \/ Head(text) # "\"" THEN 0
  ELSE LET body == SpanOf(Tail(text), TextChars \ {"\""})
       IN IF Len(text) >= body + 2 /\ text[body + 2] = "\"" THEN body + 2 ELSE 0

\* [[:digit:]]+\b
IntMatch(text) ==
  LET i == SpanOf(text, Digits)
  IN IF i > 0 /\ BoundaryAt(text, i) THEN i ELSE 0

\* //[^\n\r]*(\r\n?|\n)
CommentMatch(text) ==
  IF ~StartsWith(text, <<"/", "/">>) THEN 0
  ELSE LET body == SpanOf(Drop(text, 2), TextChars \ {"\n", "\r"})
           n == 2 + body
       IN IF Len(text) > n /\ text[n + 1] = "\n" THEN n + 1
          ELSE IF Len(text) > n + 1 /\ text[n + 1] = "\r" /\ text[n + 2] = "\n" THEN n + 2
          ELSE IF Len(text) > n /\ text[n + 1] = "\r" THEN n + 1
          ELSE 0

\* a keyword followed by \b
KeywordMatch(text, word) ==
  IF StartsWith(text, word) /\ BoundaryAt(text, Len(word)) THEN Len(word) ELSE 0

\* [_[:alpha:]][_[:alnum:]]*\b
IdentMatch(text) ==
  IF text = <<>> \/ Head(text) \notin Alphas THEN 0 ELSE SpanOf(text, WordChars)

PrintWord == <<"p", "r", "i", "n", "t">>
AppendWord == <<"a", "p", "p", "e", "n", "d">>
SymbolTokens == [c \in {"=", ".", ";", "(", ")", "+", "-", "*", "/"} |->
  CASE c = "=" -> "Equals" [] c = "." -> "TupleIdx" [] c = ";" -> "Term"
    [] c = "(" -> "Paren" [] c = ")" -> "EndParen" [] c = "+" -> "Add"
    [] c = "-" -> "Subtract" [] c = "*" -> "Multiply" [] c = "/" -> "Divide"]

\* One rule application at the head of text: the matched length and the token
\* it adds ("" for none, "Error" for m.error or for no rule matching).
\* parens is the number of Paren nodes currently open.
LexRule(text, parens, use_parser_tuples) ==
  LET c == Head(text)
      take(n, t) == [len |-> n, t |-> t]
  IN CASE c \in Spaces -> take(SpanOf(text, Spaces), "")
       [] c = "=" -> take(1, "Equals")
       [] c = "," -> IF use_parser_tuples
                     THEN (IF parens > 0 THEN take(1, "ParserTuple") ELSE take(1, "Error"))
                     ELSE take(1, "Comma")
       [] c \in {".", ";", "(", ")"} -> take(1, SymbolTokens[c])
       [] FloatMatch(text) > 0 -> take(FloatMatch(text), "Float")
       [] StringMatch(text) > 0 -> take(StringMatch(text), "String")
       [] IntMatch(text) > 0 -> take(IntMatch(text), "Int")
       [] CommentMatch(text) > 0 -> take(CommentMatch(text), "")
       [] KeywordMatch(text, PrintWord) > 0 -> take(Len(PrintWord), "Print")
       [] KeywordMatch(text, AppendWord) > 0 -> take(Len(AppendWord), "Append")
       [] IdentMatch(text) > 0 -> take(IdentMatch(text), "Ident")
       [] c \in {"+", "-", "*", "/"} -> take(1, SymbolTokens[c])
       [] OTHER -> take(1, "Error")

\* the state of the parser after the rule application r at the head of text
RECURSIVE LexLoop(_, _, _, _)
LexStep(text, parens, toks, r, use_parser_tuples) ==
  LexLoop(Drop(text, r.len),
          IF r.t = "Paren" THEN parens + 1
          ELSE IF r.t = "EndParen" /\ parens > 0 THEN parens - 1
          ELSE parens,
          IF r.t = "" THEN toks ELSE Append(toks, Token(r.t, SubSeq(text, 1, r.len))),
          use_parser_tuples)

LexLoop(text, parens, toks, use_parser_tuples) ==
  IF text = <<>> THEN toks
  ELSE LexStep(text, parens, toks, LexRule(text, parens, use_parser_tuples),
               use_parser_tuples)

Lex(text, use_parser_tuples) == LexLoop(text, 0, <<>>, use_parser_tuples)

(***************************************************************************)
(* The reader behind infix::reader(config).synthetic(text).read(): the      *)
(* tokens of parse.cc grouped by the grammar of the language.  TupleIdx     *)
(* binds tighter than Multiply/Divide, which bind tighter than              *)
(* Add/Subtract, which bind tighter than the tuple comma; binary operators  *)
(* associate to the left; (,) is the empty tuple, (e,) a tuple of one, a    *)
(* comma-separated list may end in a comma, and append(...) takes such a    *)
(* list.  A result is [ok |-> FALSE] or the node read and the position      *)
(* after it.                                                                *)
(***************************************************************************)
ReadFail == [ok |-> FALSE]
ReadOk(node, pos) == [ok |-> TRUE, node |-> node, pos |-> pos]
TokAt(toks, pos) == IF pos <= Len(toks) THEN toks[pos].t ELSE "End"
CommaTokens == {"Comma", "ParserTuple"}
AtomStarts == {"Int", "Float", "String", "Ident", "Paren", "Append"}

RECURSIVE ReadAtom(_, _, _)
RECURSIVE ReadIdxRest(_, _, _)
RECURSIVE ReadMulRest(_, _, _)
RECURSIVE ReadAddRest(_, _, _)
RECURSIVE ReadItemsFrom(_, _, _, _, _)

BinaryNode(tok, l, r) == Expression(Node(tok.t, tok.s, <<l, r>>))

\* the binary node of the operands l and r, when the right operand was read
ReadJoin(tok, l, r) ==
  IF r.ok THEN ReadOk(BinaryNode(tok, l.node, r.node), r.pos) ELSE ReadFail

ReadIdx(toks, pos, config) == ReadIdxRest(toks, ReadAtom(toks, pos, config), config)

ReadMul(toks, pos, config) == ReadMulRest(toks, ReadIdx(toks, pos, config), config)

ReadAdd(toks, pos, config) == ReadAddRest(toks, ReadMul(toks, pos, config), config)

\* the operators that follow the operand l, if l was read
ReadIdxRest(toks, l, config) ==
  IF ~l.ok THEN ReadFail
  ELSE IF TokAt(toks, l.pos) # "TupleIdx" THEN l
  ELSE IF ~config.enable_tuples THEN ReadFail
  ELSE ReadIdxRest(toks, ReadJoin(toks[l.pos], l, ReadAtom(toks, l.pos + 1, config)), config)

ReadMulRest(toks, l, config) ==
  IF ~l.ok THEN ReadFail
  ELSE IF TokAt(toks, l.pos) \notin {"Multiply", "Divide"} THEN l
  ELSE ReadMulRest(toks, ReadJoin(toks[l.pos], l, ReadIdx(toks, l.pos + 1, config)), config)

ReadAddRest(toks, l, config) ==
  IF ~l.ok THEN ReadFail
  ELSE IF TokAt(toks, l.pos) \notin {"Add", "Subtract"} THEN l
  ELSE ReadAddRest(toks, ReadJoin(toks[l.pos], l, ReadMul(toks, l.pos + 1, config)), config)

\* the list after its item e
ReadItemsNext(toks, items, commas, e, config) ==
  IF ~e.ok THEN ReadFail
  ELSE IF TokAt(toks, e.pos) \in CommaTokens
  THEN ReadItemsFrom(toks, Append(items, e.node), TRUE, e.pos + 1, config)
  ELSE [ok |-> TRUE, items |-> Append(items, e.node), commas |-> commas, pos |-> e.pos]

\* a comma-separated list: its items, whether a comma was seen, the position after it
ReadItemsFrom(toks, items, commas, pos, config) ==
  IF TokAt(toks, pos) \notin AtomStarts
  THEN (IF commas /\ items # <<>>
        THEN [ok |-> TRUE, items |-> items, commas |-> TRUE, pos |-> pos]
        ELSE ReadFail)
  ELSE ReadItemsNext(toks, items, commas, ReadAdd(toks, pos, config), config)

ReadItems(toks, pos, config) ==
  IF TokAt(toks, pos) \in CommaTokens
  THEN [ok |-> TRUE, items |-> <<>>, commas |-> TRUE, pos |-> pos + 1]
  ELSE ReadItemsFrom(toks, <<>>, FALSE, pos, config)

\* the list l between parentheses: a tuple if it holds a comma, else its item
ReadParen(toks, l, config) ==
  IF ~l.ok \/ TokAt(toks, l.pos) # "EndParen" THEN ReadFail
  ELSE IF l.commas
  THEN (IF config.enable_tuples
        THEN ReadOk(Expression(TupleOf(l.items)), l.pos + 1)
        ELSE ReadFail)
  ELSE ReadOk(l.items[1], l.pos + 1)

\* the list l between the parentheses of append(...)
ReadAppend(toks, l) ==
  IF ~l.ok \/ TokAt(toks, l.pos) # "EndParen" THEN ReadFail
  ELSE ReadOk(Expression(AppendOf(l.items)), l.pos + 1)

ReadAtom(toks, pos, config) ==
  LET t == TokAt(toks, pos)
  IN CASE t \in {"Int", "Float", "String"} ->
            ReadOk(Expression(Node(t, toks[pos].s, <<>>)), pos + 1)
       [] t = "Ident" -> ReadOk(Expression(Ref(toks[pos].s)), pos + 1)
       [] t = "Paren" -> ReadParen(toks, ReadItems(toks, pos + 1, config), config)
       [] t = "Append" ->
            IF ~config.enable_tuples \/ TokAt(toks, pos + 1) # "Paren" THEN ReadFail
            ELSE ReadAppend(toks, ReadItems(toks, pos + 2, config))
       [] OTHER -> ReadFail

\* Ident = items ; where a list with a comma is a tuple without parentheses
ReadAssignList(toks, pos, l, config) ==
  IF ~l.ok \/ TokAt(toks, l.pos) # "Term" THEN ReadFail
  ELSE IF l.commas
  THEN (IF config.enable_tuples /\ ~config.tuples_require_parens
        THEN ReadOk(Assign(toks[pos].s, Expression(TupleOf(l.items))), l.pos + 1)
        ELSE ReadFail)
  ELSE ReadOk(Assign(toks[pos].s, l.items[1]), l.pos + 1)

ReadAssign(toks, pos, config) ==
  IF TokAt(toks, pos) # "Ident" \/ TokAt(toks, pos + 1) # "Equals" THEN ReadFail
  ELSE ReadAssignList(toks, pos, ReadItems(toks, pos + 2, config), config)

RECURSIVE ReadCalculation(_, _, _, _)
\* the Calculation after its statement a
ReadStatement(toks, a, calculation, config) ==
  IF a.ok THEN ReadCalculation(toks, a.pos, PushBack(calculation, a.node), config)
  ELSE ReadFail

ReadCalculation(toks, pos, calculation, config) ==
  IF pos > Len(toks) THEN ReadOk(calculation, pos)
  ELSE ReadStatement(toks, ReadAssign(toks, pos, config), calculation, config)

ReadTokens(toks, config) ==
  IF \E i \in 1..Len(toks) : toks[i].t = "Error"
  THEN ReadFail
  ELSE ReadCalculation(toks, 1, Calculation(<<>>), config)

\* reader.read(): result.ok and the Calculation under result.ast
Read(text, config) == ReadTokens(Lex(text, config.use_parser_tuples), config)

(***************************************************************************)
(* write_infix (writers.cc): the text the infix writer produces for a       *)
(* tree.  A result is the text written and whether the writer gave up       *)
(* (write_infix returning true).                                            *)
(***************************************************************************)
WriteLit(s) == [lit |-> TRUE, s |-> s]
WriteSub(node) == [lit |-> FALSE, node |-> node]

\* the children of a Tuple or an Append, ", " before each but the first
RECURSIVE WriteSeparated(_, _)
WriteSeparated(kids, is_init) ==
  IF kids = <<>> THEN <<>>
  ELSE (IF is_init THEN <<>> ELSE <<WriteLit(<<",", " ">>)>>)
         \o <<WriteSub(Head(kids))>> \o WriteSeparated(Tail(kids), FALSE)

\* what write_infix puts on the stream for a node of a known type, in order:
\* literal text and the children it recurses into
WriteForm(node) ==
  CASE node.type \in {"Int", "Float", "String", "Ident"} -> <<WriteLit(node.loc)>>
    [] node.type \in {"Add", "Subtract", "Multiply", "Divide"} ->
         <<WriteLit(<<"(">>), WriteSub(node.kids[1]),
           WriteLit(<<" ">> \o node.loc \o <<" ">>),
           WriteSub(node.kids[Len(node.kids)]), WriteLit(<<")">>)>>
    [] node.type = "Tuple" ->
         <<WriteLit(<<"(">>)>> \o WriteSeparated(node.kids, TRUE)
           \o <<WriteLit(<<",", ")">>)>>
    [] node.type = "Append" ->
         <<WriteLit(<<"a", "p", "p", "e", "n", "d", "(">>)>>
           \o WriteSeparated(node.kids, TRUE) \o <<WriteLit(<<",", ")">>)>>
    [] node.type = "TupleIdx" ->
         <<WriteLit(<<"(">>), WriteSub(node.kids[1]), WriteLit(<<")", ".", "(">>),
           WriteSub(node.kids[Len(node.kids)]), WriteLit(<<")">>)>>
    [] node.type = "Assign" ->
         <<WriteSub(node.kids[1]), WriteLit(<<" ", "=", " ">>),
           WriteSub(node.kids[Len(node.kids)]), WriteLit(<<";", "\n">>)>>
    [] node.type = "Calculation" ->
         [i \in 1..Len(node.kids) |-> WriteSub(node.kids[i])]

WrittenTypes ==
  {"Int", "Float", "String", "Ident", "Add", "Subtract", "Multiply", "Divide",
   "Tuple", "Append", "TupleIdx", "Assign", "Calculation"}

RECURSIVE write_infix(_)
RECURSIVE WriteParts(_, _)
\* if (write_infix(os, child)) return true: the text so far and the outcome w
\* of the part written last
WriteAfter(parts, text, w) ==
  IF w.err THEN [err |-> TRUE, text |-> text \o w.text]
  ELSE WriteParts(parts, text \o w.text)

\* os << text and the recursive calls, in order, until one gives up
WriteParts(parts, text) ==
  IF parts = <<>> THEN [err |-> FALSE, text |-> text]
  ELSE WriteAfter(Tail(parts), text,
                  IF Head(parts).lit THEN [err |-> FALSE, text |-> Head(parts).s]
                  ELSE write_infix(Head(parts).node))

\* the node write_infix looks at: under an Expression, then under a Ref
WriteUnwrap(node0) ==
  IF node0.type = "Expression"
  THEN (IF node0.kids[1].type = "Ref" THEN node0.kids[1].kids[1] ELSE node0.kids[1])
  ELSE IF node0.type = "Ref" THEN node0.kids[1] ELSE node0

WriteNode(node) ==
  IF node.type \in WrittenTypes THEN WriteParts(WriteForm(node), <<>>)
  ELSE [err |-> TRUE, text |-> <<"<", "e", "r", "r", "o", "r", ">", "\n">>]

write_infix(node0) == WriteNode(WriteUnwrap(node0))

(***************************************************************************)
(* main (bfs_test): the candidates of one Calculation, the test renderer's  *)
(* followed by the text of the infix writer, each paired with a clone of    *)
(* the Calculation                                                          *)
(***************************************************************************)
\* the element that stands for std::exit(1) inside the producer
WriterExit == [exit |-> 1]

\* what the lambda [=]() passed to concat returns for the writer's result
WriterData(result) ==
  IF result.err THEN Single(WriterExit)
  ELSE Single(CSData(CatStr(result.text), FALSE))

\* the lambda [=]() passed to concat
writerCand(calculation) == WriterData(write_infix(calculation))

\* the lambda [](trieste::Node calculation) passed to flat_map
driverPairs(calculation) ==
  Map(Concat(calculation_strings(calculation),
             [k |-> "writerCand", calculation |-> calculation]),
      [k |-> "pairWith", calculation |-> calculation])

(***************************************************************************)
(* Calling a std::function: the lambdas of bfs.h and of progspace           *)
(***************************************************************************)
Force(fn) ==
  CASE fn.k = "nil" -> Empty
    [] fn.k = "const" -> fn.rhs
    [] fn.k = "mapNext" -> Map(Force(fn.next), fn.fn)
    [] fn.k = "concatNext" -> Concat(Force(fn.next), fn.rhs_fn)
    [] fn.k = "flatMapRest" -> FlatMap(fn.current, fn.fn)
    [] fn.k = "seq" -> FromSeq(fn.xs)
    [] fn.k = "veOne" -> Single(Expression(IntLit(<<"1">>)))
    [] fn.k = "veRefs" -> RefsLoop(SetInOrder(fn.env), Empty)
    [] fn.k = "veRef" -> Single(Expression(Ref(fn.name)))
    [] fn.k = "veTuple0" -> Single(Expression(TupleOf(<<>>)))
    [] fn.k = "veAppend0" -> Single(Expression(AppendOf(<<>>)))
    [] fn.k = "veBin" -> FlatMap(fn.sub_expr, [k |-> "veRhs", lhs |-> fn.lhs])
    [] fn.k = "trailComma" -> cat_cs(fn.result, CSView(<<",">>))
    [] fn.k = "writerCand" -> writerCand(fn.calculation)

Apply(fn, x) ==
  CASE fn.k = "table" -> FromSeq(fn.tbl[x])
    [] fn.k = "compose" -> FlatMap(Apply(fn.f, x), fn.g)
    [] fn.k = "succ" -> x + 1
    [] fn.k = "veLhs" -> veLhs(fn.sub_expr, x)
    [] fn.k = "veRhs" -> veRhs(fn.lhs, x)
    [] fn.k = "vaAssign" -> Single(Assign(fn.name, Clone(x)))
    [] fn.k = "vcSlot" -> vcSlot(fn.depth, fn.name, x)
    [] fn.k = "vcPair" -> vcPair(fn.calculation, fn.env, x)
    [] fn.k = "first" -> x[1]
    [] fn.k = "catPrefix" -> Map(fn.rhs, [k |-> "catSuffix", prefix |-> x])
    [] fn.k = "catSuffix" -> CSConcat(fn.prefix, x)
    [] fn.k = "binopBody" -> binopBody(fn.expression, x)
    [] fn.k = "tupleForm" -> tupleForm(fn.precedence, fn.expression, x)
    [] fn.k = "parensOmitted" -> CSParensOmitted(x)
    [] fn.k = "driverPairs" -> driverPairs(x)
    [] fn.k = "pairWith" -> <<Clone(fn.calculation), x>>

(***************************************************************************)
(* The consumer of a stream: begin(), then *it and ++it until the sentinel. *)
(* Two iterators may be obtained from the same Result and advanced in any   *)
(* order.                                                                   *)
(***************************************************************************)
Begin1 ==
  /\ pc = "built"
  /\ ~it.live
  /\ it' = IterBegin(res)
  /\ UNCHANGED <<input, pc, res, out, it2, out2, stack, os>>
  /\ UNCHANGED driverVars

Advance1 ==
  /\ IterNotEnd(it)
  /\ Len(out) < MaxYield
  /\ out' = Append(out, IterDeref(it))
  /\ it' = IterIncr(it)
  /\ UNCHANGED <<input, pc, res, it2, out2, stack, os>>
  /\ UNCHANGED driverVars

Begin2 ==
  /\ pc = "built"
  /\ ~it2.live
  /\ it2' = IterBegin(res)
  /\ UNCHANGED <<input, pc, res, it, out, out2, stack, os>>
  /\ UNCHANGED driverVars

Advance2 ==
  /\ IterNotEnd(it2)
  /\ Len(out2) < MaxYield
  /\ out2' = Append(out2, IterDeref(it2))
  /\ it2' = IterIncr(it2)
  /\ UNCHANGED <<input, pc, res, it, out, stack, os>>
  /\ UNCHANGED driverVars

(***************************************************************************)
(* SpecRope: str() of a.concat(b), one loop iteration per step              *)
(***************************************************************************)
RopeLeaves == {CatView(<<>>), CatStr(<<"a", "b">>), CatView(<<"c">>)}

RECURSIVE Ropes(_)
Ropes(d) ==
  IF d = 0 THEN RopeLeaves
  ELSE Ropes(d - 1) \cup {CatPair(x, y) : x \in Ropes(d - 1), y \in Ropes(d - 1)}

InitRope ==
  /\ input \in [a : Ropes(MaxRopeDepth), b : Ropes(MaxRopeDepth)]
  /\ pc = "start"
  /\ res = Empty
  /\ it = NoIter
  /\ out = <<>>
  /\ it2 = NoIter
  /\ out2 = <<>>
  /\ stack = <<>>
  /\ os = <<>>
  /\ DriverIdle

StrBegin ==
  /\ pc = "start"
  /\ stack' = <<CatConcat(input.a, input.b)>>
  /\ pc' = "loop"
  /\ UNCHANGED <<input, res, it, out, it2, out2, os>>
  /\ UNCHANGED driverVars

StrVisit ==
  /\ pc = "loop"
  /\ stack # <<>>
  /\ LET n == StrVisitTop(stack, os)
     IN /\ stack' = n.stack
        /\ os' = n.os
  /\ UNCHANGED <<input, pc, res, it, out, it2, out2>>
  /\ UNCHANGED driverVars

StrReturn ==
  /\ pc = "loop"
  /\ stack = <<>>
  /\ pc' = "done"
  /\ UNCHANGED <<input, res, it, out, it2, out2, stack, os>>
  /\ UNCHANGED driverVars

NextRope == StrBegin \/ StrVisit \/ StrReturn

SpecRope == InitRope /\ [][NextRope]_vars

(***************************************************************************)
(* SpecStream: streams built with concat, map and flat_map from a drawn     *)
(* stream s and drawn functions f and g, read through two iterators         *)
(***************************************************************************)
RECURSIVE SeqsUpTo(_, _)
SeqsUpTo(S, n) ==
  IF n = 0 THEN {<<>>}
  ELSE SeqsUpTo(S, n - 1) \cup {Append(q, x) : q \in SeqsUpTo(S, n - 1), x \in S}

Builds == {"s", "concatEmptyR", "concatEmptyL", "concatFnEmptyR", "concatFnL",
           "fmLeft", "fmRight", "map", "flatMap", "concatSeq"}
FmBuilds == {"fmLeft", "fmRight"}
\* the builds that use f only
FBuilds == {"flatMap", "concatSeq"}
NoFn == [x \in Vals |-> <<>>]

TableFn(tbl) == [k |-> "table", tbl |-> tbl]
ComposeFn(f, g) == [k |-> "compose", f |-> f, g |-> g]

BuildOf(build, xs, f, g) ==
  LET s == FromSeq(xs)
  IN CASE build = "s" -> s
       [] build = "concatEmptyR" -> ConcatR(s, Empty)
       [] build = "concatEmptyL" -> ConcatR(Empty, s)
       [] build = "concatFnEmptyR" -> Concat(s, NilFn)
       [] build = "concatFnL" -> Concat(Empty, [k |-> "seq", xs |-> xs])
       [] build = "fmLeft" -> FlatMap(FlatMap(s, TableFn(f)), TableFn(g))
       [] build = "fmRight" -> FlatMap(s, ComposeFn(TableFn(f), TableFn(g)))
       [] build = "map" -> Map(s, [k |-> "succ"])
       [] build = "flatMap" -> FlatMap(s, TableFn(f))
       [] build = "concatSeq" -> Concat(s, [k |-> "seq", xs |-> f[1]])

InitStream ==
  /\ input \in {i \in [build : Builds, xs : SeqsUpTo(Vals, MaxLen),
                       f : [Vals -> FnOuts], g : [Vals -> FnOuts]] :
                  /\ i.build \notin FmBuilds \cup FBuilds => i.f = NoFn
                  /\ i.build \notin FmBuilds => i.g = NoFn}
  /\ pc = "init"
  /\ res = Empty
  /\ it = NoIter
  /\ out = <<>>
  /\ it2 = NoIter
  /\ out2 = <<>>
  /\ stack = <<>>
  /\ os = <<>>
  /\ DriverIdle

BuildStream ==
  /\ pc = "init"
  /\ res' = BuildOf(input.build, input.xs, input.f, input.g)
  /\ pc' = "built"
  /\ UNCHANGED <<input, it, out, it2, out2, stack, os>>
  /\ UNCHANGED driverVars

NextStream == BuildStream \/ Begin1 \/ Advance1 \/ Begin2 \/ Advance2

SpecStream == InitStream /\ [][NextStream]_vars

(***************************************************************************)
(* SpecGen: one traversal of valid_expression(env, depth), of               *)
(* valid_calculation(op_count, depth) or of the (Calculation, Env) pairs    *)
(* that valid_calculation holds in assigns                                  *)
(***************************************************************************)
GenEnvs == SUBSET {foo, bar}

InitGen ==
  /\ input \in [fn : {"valid_expression"}, env : GenEnvs, depth : 0..MaxDepth, op_count : {0}]
           \cup [fn : {"valid_calculation", "assigns"}, env : {{}}, depth : 0..MaxDepth,
                 op_count : 0..MaxOps]
  /\ pc = "init"
  /\ res = Empty
  /\ it = NoIter
  /\ out = <<>>
  /\ it2 = NoIter
  /\ out2 = <<>>
  /\ stack = <<>>
  /\ os = <<>>
  /\ DriverIdle

BuildGen ==
  /\ pc = "init"
  /\ res' = CASE input.fn = "valid_expression" -> valid_expression(input.env, input.depth)
              [] input.fn = "valid_calculation" -> valid_calculation(input.op_count, input.depth)
              [] input.fn = "assigns" -> vcAssigns(input.op_count, input.depth)
  /\ pc' = "built"
  /\ UNCHANGED <<input, it, out, it2, out2, stack, os>>
  /\ UNCHANGED driverVars

NextGen == BuildGen \/ Begin1 \/ Advance1

SpecGen == InitGen /\ [][NextGen]_vars

(***************************************************************************)
(* SpecRender: one traversal of calculation_strings(calculation), for the   *)
(* trees of progspace_test.cc and for the first Calculations of             *)
(* valid_calculation(op_count, depth), under each reader configuration      *)
(***************************************************************************)
IntExpr(n) == Expression(IntLit(<<n>>))
StringTest0 ==
  Calculation(<<Assign(foo, Expression(Add(IntExpr("0"), Expression(Add(IntExpr("1"), IntExpr("2"))))))>>)
StringTest1 ==
  Calculation(<<Assign(foo, Expression(Add(Expression(Add(IntExpr("0"), IntExpr("1"))), IntExpr("2"))))>>)
StringTest2 ==
  Calculation(<<Assign(foo, Expression(TupleOf(<<IntExpr("1"), IntExpr("2"), IntExpr("3")>>)))>>)
StringTests == {StringTest0, StringTest1, StringTest2}

RECURSIVE Take(_, _)
Take(r, n) ==
  IF n = 0 \/ ~IsCell(r) THEN <<>>
  ELSE <<r.value>> \o Take(Force(r.next), n - 1)

GeneratedCalcs ==
  UNION {Range(Take(valid_calculation(op_count, depth), MaxCalcs)) :
           op_count \in 1..MaxOps, depth \in 0..MaxRenderDepth}

\* the reader configurations drawn for bfs_test_config: parser tuples are
\* used only with tuples enabled and parentheses required
Configs ==
  {c \in [enable_tuples : BOOLEAN, tuples_require_parens : BOOLEAN,
          use_parser_tuples : BOOLEAN] :
     c.use_parser_tuples => (c.enable_tuples /\ c.tuples_require_parens)}

\* trees of the generator beyond the first MaxCalcs of a depth: a Tuple of two
\* children below an operator, alone and below an Append
TupleSum == Expression(Add(Expression(TupleOf(<<IntExpr("0"), IntExpr("0")>>)),
                           Expression(TupleOf(<<IntExpr("0")>>))))
RenderProbes ==
  {Calculation(<<Assign(foo, TupleSum)>>),
   Calculation(<<Assign(foo, Expression(AppendOf(<<TupleSum>>)))>>)}

InitRender ==
  /\ input \in [calculation : StringTests \cup GeneratedCalcs \cup RenderProbes,
                config : Configs]
  /\ pc = "init"
  /\ res = Empty
  /\ it = NoIter
  /\ out = <<>>
  /\ it2 = NoIter
  /\ out2 = <<>>
  /\ stack = <<>>
  /\ os = <<>>
  /\ DriverIdle

BuildRender ==
  /\ pc = "init"
  /\ res' = calculation_strings(input.calculation)
  /\ pc' = "built"
  /\ UNCHANGED <<input, it, out, it2, out2, stack, os>>
  /\ UNCHANGED driverVars

NextRender == BuildRender \/ Begin1 \/ Advance1

SpecRender == InitRender /\ [][NextRender]_vars

(***************************************************************************)
(* SpecExhaust: the depth loop of main (bfs_test) over the expressions of   *)
(* valid_expression(env, 0), ..., valid_expression(env, bfs_depth).  The    *)
(* consumer reads up to ReadChunk elements per step and keeps, in out, the  *)
(* elements read that are trees looked for.                                 *)
(***************************************************************************)
MaxBfsDepth == 2     \* bfs_depth of the exhaustive traversal
MaxScopedDepth == 1  \* bfs_depth up to which a non-empty scope is drawn
ReadChunk == 40      \* loop iterations of the consumer per step

\* nesting depth of an Expression: 0 for a literal, a Reference and an empty
\* Tuple or Append
RECURSIVE TreeDepth(_)
RECURSIVE MaxKidDepth(_)
MaxKidDepth(kids) ==
  IF kids = <<>> THEN 0
  ELSE LET h == TreeDepth(Head(kids))
           t == MaxKidDepth(Tail(kids))
       IN IF h > t THEN h ELSE t
TreeDepth(expression) ==
  LET node == expression.kids[1]
  IN IF node.type \in {"Int", "Ref"} \/ node.kids = <<>> THEN 0
     ELSE 1 + MaxKidDepth(node.kids)

\* the trees of nesting depth 2 looked for: equal operand depths, one operand,
\* and operands of different depths
Depth2Probes ==
  {Expression(Add(Expression(TupleOf(<<IntExpr("0")>>)), Expression(TupleOf(<<IntExpr("1")>>)))),
   Expression(TupleOf(<<Expression(Add(IntExpr("0"), IntExpr("1")))>>)),
   Expression(Add(IntExpr("0"), Expression(Add(IntExpr("1"), IntExpr("0"))))),
   Expression(AppendOf(<<Expression(TupleOf(<<IntExpr("0")>>)), IntExpr("1")>>))}

IsProbe(expression) == TreeDepth(expression) <= 1 \/ expression \in Depth2Probes

\* the loop body of the consumer, run n times or until the sentinel
RECURSIVE ReadMany(_, _, _)
ReadMany(r, n, found) ==
  IF n = 0 \/ ~IsCell(r) THEN <<r, found>>
  ELSE ReadMany(Force(r.next), n - 1,
                IF IsProbe(r.value) THEN Append(found, r.value) ELSE found)

InitExhaust ==
  /\ input \in {i \in [env : GenEnvs, bfs_depth : 0..MaxBfsDepth] :
                  i.bfs_depth > MaxScopedDepth => i.env = {}}
  /\ pc = "init"
  /\ res = Empty
  /\ it = NoIter
  /\ out = <<>>
  /\ it2 = NoIter
  /\ out2 = <<>>
  /\ stack = <<>>
  /\ os = <<>>
  /\ DriverIdle

\* for (int curr_bfs_depth = 0; ...
ExhaustBegin ==
  /\ pc = "init"
  /\ pc' = "depth"
  /\ curr_bfs_depth' = 0
  /\ UNCHANGED <<input, res, it, out, it2, out2, stack, os, ok_count, status, check, heap>>

\* curr_bfs_depth <= bfs_depth: the stream of this depth and its begin()
ExhaustGenerate ==
  /\ pc = "depth"
  /\ curr_bfs_depth <= input.bfs_depth
  /\ res' = valid_expression(input.env, curr_bfs_depth)
  /\ it' = IterBegin(res')
  /\ pc' = "loop"
  /\ UNCHANGED <<input, out, it2, out2, stack, os>>
  /\ UNCHANGED driverVars

ExhaustRead ==
  /\ pc = "loop"
  /\ IterNotEnd(it)
  /\ LET s == ReadMany(it.result, ReadChunk, out)
     IN /\ it' = [live |-> TRUE, result |-> s[1]]
        /\ out' = s[2]
  /\ UNCHANGED <<input, pc, res, it2, out2, stack, os>>
  /\ UNCHANGED driverVars

\* the sentinel is reached: ++curr_bfs_depth
ExhaustNextDepth ==
  /\ pc = "loop"
  /\ IterAtEnd(it)
  /\ curr_bfs_depth' = curr_bfs_depth + 1
  /\ pc' = "depth"
  /\ UNCHANGED <<input, res, it, out, it2, out2, stack, os, ok_count, status, check, heap>>

\* the loop ends with curr_bfs_depth > bfs_depth
ExhaustDone ==
  /\ pc = "depth"
  /\ curr_bfs_depth > input.bfs_depth
  /\ pc' = "done"
  /\ UNCHANGED <<input, res, it, out, it2, out2, stack, os>>
  /\ UNCHANGED driverVars

NextExhaust ==
  ExhaustBegin \/ ExhaustGenerate \/ ExhaustRead \/ ExhaustNextDepth \/ ExhaustDone

SpecExhaust == InitExhaust /\ [][NextExhaust]_vars

(***************************************************************************)
(* SpecDriver: main (bfs_test).  For each depth 0..bfs_depth the            *)
(* Calculations of valid_calculation(bfs_op_count, depth) are rendered,     *)
(* each candidate is read back and the loop body decides whether the run    *)
(* goes on (++ok_count) or ends with status 1.                              *)
(***************************************************************************)
MaxDriverOps == 1    \* bfs_op_count of the driver
MaxChecked == 700    \* candidates the driver accepts before the model stops it

\* infix::wf.build_st(prog): it succeeds on every tree the generator builds
build_st(prog) == TRUE

\* the loop body reporting every parse error, expected or not
LoopBody_expectedErrorAborts(calculation, csdata, config, n) ==
  IF csdata = WriterExit
  THEN [done |-> TRUE, n |-> n, calculation |-> calculation, writer_failed |-> TRUE,
        ok |-> FALSE]
  ELSE IF ~build_st(calculation)
  THEN [done |-> TRUE, n |-> n, calculation |-> calculation, writer_failed |-> FALSE,
        built |-> FALSE, ok |-> FALSE]
  ELSE
    LET rendered_str == CatToStr(csdata.str)
        result == Read(rendered_str, config)
        expect_failure == ExpectFailure(calculation, csdata, config)
        equals == result.ok /\ result.node = calculation
        ok == /\ result.ok
              /\ ~(result.ok /\ expect_failure /\ equals)
              /\ ~(~equals /\ ~expect_failure)
    IN [done |-> TRUE, n |-> n, calculation |-> calculation, writer_failed |-> FALSE,
        built |-> TRUE, rendered_str |-> rendered_str,
        tuple_parens_omitted |-> csdata.tuple_parens_omitted,
        expect_failure |-> expect_failure, result_ok |-> result.ok,
        equals |-> equals, ok |-> ok]

\* the loop body without the comparison of the two trees' texts
LoopBody_mismatchPasses(calculation, csdata, config, n) ==
  IF csdata = WriterExit
  THEN [done |-> TRUE, n |-> n, calculation |-> calculation, writer_failed |-> TRUE,
        ok |-> FALSE]
  ELSE IF ~build_st(calculation)
  THEN [done |-> TRUE, n |-> n, calculation |-> calculation, writer_failed |-> FALSE,
        built |-> FALSE, ok |-> FALSE]
  ELSE
    LET rendered_str == CatToStr(csdata.str)
        result == Read(rendered_str, config)
        expect_failure == ExpectFailure(calculation, csdata, config)
        equals == result.ok /\ result.node = calculation
        ok == /\ ~(~result.ok /\ ~expect_failure)
              /\ ~(result.ok /\ expect_failure /\ equals)
    IN [done |-> TRUE, n |-> n, calculation |-> calculation, writer_failed |-> FALSE,
        built |-> TRUE, rendered_str |-> rendered_str,
        tuple_parens_omitted |-> csdata.tuple_parens_omitted,
        expect_failure |-> expect_failure, result_ok |-> result.ok,
        equals |-> equals, ok |-> ok]

\* the body of the loop over valid_calc_str_pairs, up to the decision ok;
\* n is the number of candidates accepted before this one
LoopBody(calculation, csdata, config, n) ==
  IF csdata = WriterExit
  THEN [done |-> TRUE, n |-> n, calculation |-> calculation, writer_failed |-> TRUE,
        ok |-> FALSE]
  ELSE IF ~build_st(calculation)
  THEN [done |-> TRUE, n |-> n, calculation |-> calculation, writer_failed |-> FALSE,
        built |-> FALSE, ok |-> FALSE]
  ELSE
    LET rendered_str == CatToStr(csdata.str)
        result == Read(rendered_str, config)
        expect_failure == ExpectFailure(calculation, csdata, config)
        equals == result.ok /\ result.node = calculation
        ok == /\ ~(~result.ok /\ ~expect_failure)
              /\ ~(result.ok /\ expect_failure /\ equals)
              /\ ~(~equals /\ ~expect_failure)
    IN [done |-> TRUE, n |-> n, calculation |-> calculation, writer_failed |-> FALSE,
        built |-> TRUE, rendered_str |-> rendered_str,
        tuple_parens_omitted |-> csdata.tuple_parens_omitted,
        expect_failure |-> expect_failure, result_ok |-> result.ok,
        equals |-> equals, ok |-> ok]

InitDriver ==
  /\ input \in [config : Configs, bfs_op_count : 1..MaxDriverOps, bfs_depth : 0..MaxBfsDepth]
  /\ pc = "init"
  /\ res = Empty
  /\ it = NoIter
  /\ out = <<>>
  /\ it2 = NoIter
  /\ out2 = <<>>
  /\ stack = <<>>
  /\ os = <<>>
  /\ DriverIdle

\* for (int curr_bfs_depth = 0; ...
DriverBegin ==
  /\ pc = "init"
  /\ pc' = "depth"
  /\ curr_bfs_depth' = 0
  /\ UNCHANGED <<input, res, it, out, it2, out2, stack, os, ok_count, status, check, heap>>

\* curr_bfs_depth <= bfs_depth: valid_calcs, valid_calc_str_pairs and its begin()
DriverGenerate ==
  /\ pc = "depth"
  /\ curr_bfs_depth <= input.bfs_depth
  /\ res' = FlatMap(valid_calculation(input.bfs_op_count, curr_bfs_depth),
                    [k |-> "driverPairs"])
  /\ it' = IterBegin(res')
  /\ pc' = "loop"
  /\ UNCHANGED <<input, out, it2, out2, stack, os>>
  /\ UNCHANGED driverVars

\* one iteration of the loop that reports a failure and goes on to the next
\* candidate
DriverCheck_goesOnAfterFailure ==
  /\ pc = "loop"
  /\ IterNotEnd(it)
  /\ ok_count < MaxChecked
  /\ LET pair == IterDeref(it)
         found == LoopBody(pair[1], pair[2], input.config, ok_count)
     IN /\ check' = found
        /\ IF found.ok
           THEN /\ ok_count' = ok_count + 1
                /\ it' = IterIncr(it)
                /\ UNCHANGED <<pc, status>>
           ELSE /\ it' = IterIncr(it)
                /\ UNCHANGED <<ok_count, pc, status>>
  /\ UNCHANGED <<input, res, out, it2, out2, stack, os, curr_bfs_depth, heap>>

\* one iteration of the loop over valid_calc_str_pairs: ++ok_count and ++it,
\* or return 1
DriverCheck ==
  /\ pc = "loop"
  /\ IterNotEnd(it)
  /\ ok_count < MaxChecked
  /\ LET pair == IterDeref(it)
         found == LoopBody(pair[1], pair[2], input.config, ok_count)
     IN /\ check' = found
        /\ IF found.ok
           THEN /\ ok_count' = ok_count + 1
                /\ it' = IterIncr(it)
                /\ UNCHANGED <<pc, status>>
           ELSE /\ status' = "return 1"
                /\ pc' = "exit"
                /\ UNCHANGED <<ok_count, it>>
  /\ UNCHANGED <<input, res, out, it2, out2, stack, os, curr_bfs_depth, heap>>

\* the sentinel is reached: ++curr_bfs_depth
DriverNextDepth ==
  /\ pc = "loop"
  /\ IterAtEnd(it)
  /\ curr_bfs_depth' = curr_bfs_depth + 1
  /\ pc' = "depth"
  /\ UNCHANGED <<input, res, it, out, it2, out2, stack, os, ok_count, status, check, heap>>

\* curr_bfs_depth > bfs_depth: "Tested ... programs, all ok." and return 0
DriverDone ==
  /\ pc = "depth"
  /\ curr_bfs_depth > input.bfs_depth
  /\ status' = "return 0"
  /\ pc' = "exit"
  /\ UNCHANGED <<input, res, it, out, it2, out2, stack, os, curr_bfs_depth, ok_count, check, heap>>

NextDriver ==
  DriverBegin \/ DriverGenerate \/ DriverCheck \/ DriverNextDepth \/ DriverDone

SpecDriver == InitDriver /\ [][NextDriver]_vars

(***************************************************************************)
(* SpecAlias: the NodeDef objects behind one traversal of                   *)
(* valid_expression(env, 1).  An object is an entry of heap.nodes, named    *)
(* by its index, and its kids are indices.  heap.held are the objects that  *)
(* a cell of the stream sub_expr holds as its value: heap.first is the one  *)
(* in the cell sub_expr itself points to, shared by every traversal;        *)
(* heap.lhs and heap.rhs are those the two traversals are at.  out holds    *)
(* the roots of the expressions emitted.                                    *)
(***************************************************************************)
Obj(type, loc, kids) == [type |-> type, loc |-> loc, kids |-> kids]

\* In the operators below a is <<nodes, ids>>: the objects so far and the
\* objects made for the node under construction, in order.

\* (type ^ loc) << ids
Over(a, type, loc) == <<Append(a[1], Obj(type, loc, a[2])), <<Len(a[1]) + 1>>>>

\* Expression << ((type ^ loc) << ids)
ExprOver(a, type, loc) == Over(Over(a, type, loc), "Expression", <<>>)

\* the objects of a tree the code builds, its root added to the ids of a
RECURSIVE AllocTree(_, _)
RECURSIVE AllocKids(_, _)
AllocKids(a, kids) ==
  IF kids = <<>> THEN a ELSE AllocKids(AllocTree(a, Head(kids)), Tail(kids))

AllocRoot(a, b, tree) ==
  <<Append(b[1], Obj(tree.type, tree.loc, b[2])), Append(a[2], Len(b[1]) + 1)>>

AllocTree(a, tree) == AllocRoot(a, AllocKids(<<a[1], <<>>>>, tree.kids), tree)

\* the tree below an object
RECURSIVE TreeOf(_, _)
TreeOf(nodes, id) ==
  Node(nodes[id].type, nodes[id].loc,
       [i \in 1..Len(nodes[id].kids) |-> TreeOf(nodes, nodes[id].kids[i])])

\* node->clone(): a fresh object for every object below node
CloneObj(a, id) == AllocTree(a, TreeOf(a[1], id))

\* the roots b made after the roots emitted before
After(roots, b) == <<b[1], roots \o b[2]>>

\* the lambda [sub_expr](auto lhs): Expression << (Tuple << lhs), then
\* Expression << (Append << lhs->clone())
veLhsAppend(lhs, t) ==
  After(t[2], ExprOver(CloneObj(<<t[1], <<>>>>, lhs), "Append", <<>>))

veLhsObjs(nodes, lhs) ==
  veLhsAppend(lhs, ExprOver(<<nodes, <<lhs>>>>, "Tuple", <<>>))

\* the lambda [lhs](auto rhs): one Expression per form, each over
\* lhs->clone() << rhs->clone(); heap.form is the form built next
BinaryFormTypes ==
  <<<<"Add", <<"+">>>>, <<"Subtract", <<"-">>>>, <<"Multiply", <<"*">>>>,
    <<"Divide", <<"/">>>>, <<"Tuple", <<>>>>, <<"Append", <<>>>>,
    <<"TupleIdx", <<".">>>>>>

veRhsForm(nodes, form, lhs, rhs) ==
  ExprOver(CloneObj(CloneObj(<<nodes, <<>>>>, lhs), rhs), form[1], form[2])

\* the object a cell newly made by the stream holds, if r is a cell
HeldOf(nodes, r) ==
  IF IsCell(r) THEN AllocTree(<<nodes, <<>>>>, r.value) ELSE <<nodes, <<0>>>>

InitAlias ==
  /\ input \in [env : GenEnvs]
  /\ pc = "init"
  /\ res = Empty
  /\ it = NoIter
  /\ out = <<>>
  /\ it2 = NoIter
  /\ out2 = <<>>
  /\ stack = <<>>
  /\ os = <<>>
  /\ DriverIdle

\* heap after the outer traversal came to the cell whose object is e
AtLhs(h, e) ==
  [nodes |-> e[1], held |-> h.held \cup (Range(e[2]) \ {0}),
   first |-> IF h = NoHeap THEN e[2][1] ELSE h.first, lhs |-> e[2][1], rhs |-> 0,
   form |-> 1]

\* heap after the inner traversal came to the cell whose object is e
AtRhs(h, e) ==
  [nodes |-> e[1], held |-> h.held \cup (Range(e[2]) \ {0}),
   first |-> h.first, lhs |-> h.lhs, rhs |-> e[2][1], form |-> 1]

\* auto sub_expr = valid_expression(env, depth - 1), and flat_map comes to
\* its first cell
AliasBegin ==
  /\ pc = "init"
  /\ res' = valid_expression(input.env, 0)
  /\ it' = IterBegin(res')
  /\ heap' = AtLhs(heap, HeldOf(heap.nodes, res'))
  /\ pc' = "lhs"
  /\ UNCHANGED <<input, out, it2, out2, stack, os, curr_bfs_depth, ok_count, status, check>>

\* fn(lhs) of the outer flat_map, and the inner flat_map comes to the first
\* cell of sub_expr
AliasLhs ==
  /\ pc = "lhs"
  /\ IterNotEnd(it)
  /\ LET b == veLhsObjs(heap.nodes, heap.lhs)
     IN /\ heap' = [heap EXCEPT !.nodes = b[1], !.rhs = heap.first]
        /\ out' = out \o b[2]
  /\ it2' = IterBegin(res)
  /\ pc' = "rhs"
  /\ UNCHANGED <<input, res, it, out2, stack, os, curr_bfs_depth, ok_count, status, check>>

\* fn(rhs) of the inner flat_map builds one more of its forms
AliasRhs ==
  /\ pc = "rhs"
  /\ IterNotEnd(it2)
  /\ heap.form < Len(BinaryFormTypes)
  /\ LET b == veRhsForm(heap.nodes, BinaryFormTypes[heap.form], heap.lhs, heap.rhs)
     IN /\ heap' = [heap EXCEPT !.nodes = b[1], !.form = heap.form + 1]
        /\ out' = out \o b[2]
  /\ UNCHANGED <<input, pc, res, it, it2, out2, stack, os, curr_bfs_depth, ok_count, status,
                 check>>

\* fn(rhs) builds its last form, and the inner flat_map comes to the next cell
AliasRhsLast ==
  /\ pc = "rhs"
  /\ IterNotEnd(it2)
  /\ heap.form = Len(BinaryFormTypes)
  /\ it2' = IterIncr(it2)
  /\ LET b == veRhsForm(heap.nodes, BinaryFormTypes[heap.form], heap.lhs, heap.rhs)
     IN /\ heap' = AtRhs(heap, HeldOf(b[1], it2'.result))
        /\ out' = out \o b[2]
  /\ UNCHANGED <<input, pc, res, it, out2, stack, os, curr_bfs_depth, ok_count, status, check>>

\* the inner traversal has ended: the outer flat_map comes to the next cell
AliasNextLhs ==
  /\ pc = "rhs"
  /\ IterAtEnd(it2)
  /\ it' = IterIncr(it)
  /\ heap' = AtLhs(heap, HeldOf(heap.nodes, it'.result))
  /\ pc' = "lhs"
  /\ UNCHANGED <<input, res, out, it2, out2, stack, os, curr_bfs_depth, ok_count, status, check>>

AliasDone ==
  /\ pc = "lhs"
  /\ IterAtEnd(it)
  /\ pc' = "done"
  /\ UNCHANGED <<input, res, it, out, it2, out2, stack, os>>
  /\ UNCHANGED driverVars

NextAlias ==
  AliasBegin \/ AliasLhs \/ AliasRhs \/ AliasRhsLast \/ AliasNextLhs \/ AliasDone

SpecAlias == InitAlias /\ [][NextAlias]_vars

(***************************************************************************)
(* SpecMaths: the TupleIdx rule of the maths pass, applied to a literal     *)
(* Tuple and a literal Int.                                                 *)
(***************************************************************************)
MaxTupleSize == 3   \* children of the literal Tuple that is indexed

DigitChars == <<"0", "1", "2", "3", "4", "5", "6", "7", "8", "9">>
DigitVal(c) == (CHOOSE i \in 1..10 : DigitChars[i] = c) - 1

\* std::stoi on a run of digits
RECURSIVE StoiDigits(_, _)
StoiDigits(text, acc) ==
  IF text = <<>> THEN acc ELSE StoiDigits(Tail(text), 10 * acc + DigitVal(Head(text)))

\* std::stoi(node->location().view())
get_int(node) ==
  IF Head(node.loc) = "-" THEN 0 - StoiDigits(Tail(node.loc), 0)
  ELSE StoiDigits(node.loc, 0)

Literal(n) == Node("Literal", <<>>, <<n>>)

\* the text of a small integer, as the earlier rules of the pass write it
IntText(i) == IF i < 0 THEN <<"-", DigitChars[1 - i]>> ELSE <<DigitChars[i + 1]>>

MathsElems == {Literal(IntLit(<<"0">>)), Literal(IntLit(<<"1">>))}
MathsTuples == {Node("Tuple", <<>>, kids) : kids \in SeqsUpTo(MathsElems, MaxTupleSize)}
MathsIdxs == {IntLit(IntText(i)) : i \in (0 - 1)..(MaxTupleSize + 1)}

\* err(node, msg)
MathsErr(node, msg) == [k |-> "error", node |-> node, msg |-> msg]

\* lhs->at(i)->front(): the children are a std::vector, and reading it at
\* its size is undefined: the build may stop there or hand back any node
TupleAt(lhs, i) ==
  IF i < Len(lhs.kids) THEN {[k |-> "node", node |-> lhs.kids[i + 1].kids[1]]}
  ELSE {[k |-> "undefined"]} \cup {[k |-> "node", node |-> e.kids[1]] : e \in MathsElems}

\* T(TupleIdx) << ((T(Literal) << T(Tuple)[Lhs]) * (T(Literal) << T(Int)[Rhs]))
TupleIdxOf(lhs, rhs, rhs_val) ==
  IF rhs_val < 0 \/ rhs_val > Len(lhs.kids)
  THEN {MathsErr(rhs, "Tuple index out of range")}
  ELSE TupleAt(lhs, rhs_val)

TupleIdxRule(lhs, rhs) == TupleIdxOf(lhs, rhs, get_int(rhs))

InitMaths ==
  /\ input \in [Lhs : MathsTuples, Rhs : MathsIdxs]
  /\ pc = "init"
  /\ res = Empty
  /\ it = NoIter
  /\ out = <<>>
  /\ it2 = NoIter
  /\ out2 = <<>>
  /\ stack = <<>>
  /\ os = <<>>
  /\ DriverIdle

MathsTupleIdx ==
  /\ pc = "init"
  /\ res' \in TupleIdxRule(input.Lhs, input.Rhs)
  /\ pc' = "done"
  /\ UNCHANGED <<input, it, out, it2, out2, stack, os>>
  /\ UNCHANGED driverVars

NextMaths == MathsTupleIdx

SpecMaths == InitMaths /\ [][NextMaths]_vars

(***************************************************************************)
(* Properties                                                               *)
(***************************************************************************)
IsPrefix(p, q) == Len(p) <= Len(q) /\ p = SubSeq(q, 1, Len(p))

\* the leaves of a rope, left to right
RECURSIVE InOrder(_)
InOrder(c) == IF c.v = "pair" THEN InOrder(c.first) \o InOrder(c.second) ELSE c.s

\* the number of rope nodes still to be visited
RECURSIVE NodeCount(_)
NodeCount(c) == IF c.v = "pair" THEN 1 + NodeCount(c.first) + NodeCount(c.second) ELSE 1
RECURSIVE Pending(_)
Pending(st) == IF st = <<>> THEN 0 ELSE NodeCount(Head(st)) + Pending(Tail(st))

\* C5: a.concat(b).str() is a.str() followed by b.str(), which is the text of
\* the leaves from left to right (while the loop runs, what is written
\* followed by what is still on the stack, top first, is that text); every
\* loop iteration leaves strictly fewer rope nodes to visit, so the loop ends.
RECURSIVE StackText(_)
StackText(st) == IF st = <<>> THEN <<>> ELSE InOrder(st[Len(st)]) \o StackText(SubSeq(st, 1, Len(st) - 1))
C5_State ==
  /\ pc = "loop" => os \o StackText(stack) = InOrder(CatConcat(input.a, input.b))
  /\ pc = "done" => /\ os = CatToStr(input.a) \o CatToStr(input.b)
                    /\ os = InOrder(CatConcat(input.a, input.b))
C5_ConcatLaw ==
  /\ []C5_State
  /\ [][(pc = "loop" /\ stack # <<>>) => Pending(stack') < Pending(stack)]_vars
C5_Witness ==
  /\ pc = "done"
  /\ input.a.v = "pair"
  /\ input.a = input.b
  /\ Len(os) = 6

\* C6: traversing s.concat(Result{}) and Result{}.concat(s), with the stream
\* argument or with a deferred producer, yields the values of s in order.
ConcatEmptyBuilds == {"concatEmptyR", "concatEmptyL", "concatFnEmptyR", "concatFnL"}
C6_ConcatEmptyIdentity ==
  input.build \in ConcatEmptyBuilds =>
    /\ IsPrefix(out, Traverse(FromSeq(input.xs)))
    /\ IterAtEnd(it) => out = Traverse(FromSeq(input.xs))
C6_Witness ==
  /\ input.build = "concatEmptyL"
  /\ IterAtEnd(it)
  /\ Len(out) = MaxLen

\* C7: s.flat_map(f).flat_map(g) and s.flat_map(x => f(x).flat_map(g)) yield
\* the same values: g(y) for each y of f(x) for each x of s, in order.
RECURSIVE FlattenSeq(_)
FlattenSeq(qs) == IF qs = <<>> THEN <<>> ELSE Head(qs) \o FlattenSeq(Tail(qs))
BindSeq(xs, tbl) == FlattenSeq([i \in 1..Len(xs) |-> tbl[xs[i]]])
C7_FlatMapAssociative ==
  (input.build \in FmBuilds /\ IterAtEnd(it)) =>
    /\ out = BindSeq(BindSeq(input.xs, input.f), input.g)
    /\ out = Traverse(BuildOf("fmLeft", input.xs, input.f, input.g))
    /\ out = Traverse(BuildOf("fmRight", input.xs, input.f, input.g))
C7_Witness ==
  /\ input.build = "fmRight"
  /\ IterAtEnd(it)
  /\ Len(input.xs) = 2
  /\ input.f[input.xs[1]] = <<>>
  /\ input.g[2] = <<>>
  /\ Len(out) = 2

\* C8: two iterators obtained from the same Result yield the same values,
\* however their steps interleave: what either has read is a prefix of one
\* complete traversal of the Result, and all of it once the iterator is at
\* the end.
C8_RetraversalDeterministic ==
  /\ (it.live /\ it2.live) => (IsPrefix(out, out2) \/ IsPrefix(out2, out))
  /\ (IterAtEnd(it) /\ IterAtEnd(it2)) => out = out2
  /\ IterAtEnd(it) => out = Traverse(res)
  /\ IterAtEnd(it2) => out2 = Traverse(res)
C8_Witness ==
  /\ input.build = "fmLeft"
  /\ IterAtEnd(it)
  /\ it2.live
  /\ Len(out) = 4
  /\ Len(out2) = 1

\* C9 as stated: valid_expression with an empty scope and depth 0 yields
\* exactly 5 candidates, consisting of the literal 0, the literal 1, the empty
\* Tuple and the empty Append, and no Reference.
Depth0Leaves == {Expression(IntLit(<<"0">>)), Expression(IntLit(<<"1">>)),
                 Expression(TupleOf(<<>>)), Expression(AppendOf(<<>>))}
C9_Case == input.fn = "valid_expression" /\ input.env = {} /\ input.depth = 0 /\ IterAtEnd(it)
C9_FiveCandidates ==
  C9_Case => (Len(out) = 5 /\ Range(out) = Depth0Leaves)

\* C9 amended: valid_expression with an empty scope and depth 0 yields
\* exactly 4 candidates: the literal 0, the literal 1, the empty Tuple and the
\* empty Append, each once, and no Reference.
C9_FourCandidates ==
  C9_Case => (Len(out) = 4 /\ Range(out) = Depth0Leaves)
C9_Witness == C9_Case /\ out # <<>>

\* C10: in valid_calculation the scope handed on with a Calculation contains
\* the names its assignments bind, so with op_count >= 2 the stream holds a
\* Calculation whose second assignment is bar = foo.
BoundNames(calculation) ==
  {calculation.kids[i].kids[1].loc : i \in 1..Len(calculation.kids)}
C10_ScopeGrows ==
  /\ input.fn = "assigns" =>
       \A i \in 1..Len(out) : BoundNames(out[i][1]) \subseteq out[i][2]
  /\ (input.fn = "valid_calculation" /\ input.op_count >= 2 /\ IterAtEnd(it)) =>
       \E i \in 1..Len(out) : out[i].kids[2] = Assign(bar, Expression(Ref(foo)))

\* C1: every candidate rendered for a generated Calculation, read back,
\* reproduces the Calculation exactly unless the configuration predicts a
\* failure (tuples disabled and the tree holds a tuple operation, or
\* parentheses required and the candidate omitted them), and then it does
\* not; with tuples enabled and parentheses not required every candidate
\* reads back to the original tree.
Reproduces(calculation, csdata, config) ==
  LET result == Read(CatToStr(csdata.str), config)
  IN result.ok /\ result.node = calculation
C1_RoundTrip ==
  input.calculation \notin StringTests =>
    \A i \in 1..Len(out) :
      Reproduces(input.calculation, out[i], input.config)
        <=> ~ExpectFailure(input.calculation, out[i], input.config)

\* the candidates read so far, as (text, omitted-parens flag) pairs
Rendered(d) == <<CatToStr(d.str), d.tuple_parens_omitted>>
Candidates == [i \in 1..Len(out) |-> Rendered(out[i])]

TextFoo0 == <<"f", "o", "o", " ", "=", " ", "0", " ", "+", " ", "(", "1", " ", "+", " ", "2", ")", ";">>
TextFooP0 == <<"f", "o", "o", " ", "=", " ", "(", "0", " ", "+", " ", "(", "1", " ", "+", " ", "2", ")", ")", ";">>
TextFooFlat == <<"f", "o", "o", " ", "=", " ", "0", " ", "+", " ", "1", " ", "+", " ", "2", ";">>
TextFooPFlat == <<"f", "o", "o", " ", "=", " ", "(", "0", " ", "+", " ", "1", " ", "+", " ", "2", ")", ";">>
TextFooL == <<"f", "o", "o", " ", "=", " ", "(", "0", " ", "+", " ", "1", ")", " ", "+", " ", "2", ";">>
TextFooPL == <<"f", "o", "o", " ", "=", " ", "(", "(", "0", " ", "+", " ", "1", ")", " ", "+", " ", "2", ")", ";">>
TextTuple == <<"f", "o", "o", " ", "=", " ", "1", ",", " ", "2", ",", " ", "3", ";">>
TextTupleC == <<"f", "o", "o", " ", "=", " ", "1", ",", " ", "2", ",", " ", "3", ",", ";">>
TextTupleP == <<"f", "o", "o", " ", "=", " ", "(", "1", ",", " ", "2", ",", " ", "3", ")", ";">>
TextTuplePC == <<"f", "o", "o", " ", "=", " ", "(", "1", ",", " ", "2", ",", " ", "3", ",", ")", ";">>

\* C2: foo = Add(0, Add(1, 2)) renders to exactly "foo = 0 + (1 + 2);" and
\* "foo = (0 + (1 + 2));", in this order, both with the flag false; no
\* candidate drops the parentheses of the right-hand Add.
C2_RightNestedAdd ==
  input.calculation = StringTest0 =>
    /\ \A i \in 1..Len(out) : Candidates[i][1] \notin {TextFooFlat, TextFooPFlat}
    /\ IterAtEnd(it) => Candidates = <<<<TextFoo0, FALSE>>, <<TextFooP0, FALSE>>>>

\* C3: foo = Add(Add(0, 1), 2) renders to exactly "foo = 0 + 1 + 2;",
\* "foo = (0 + 1) + 2;", "foo = (0 + 1 + 2);", "foo = ((0 + 1) + 2);", in this
\* order, all with the flag false.
C3_LeftNestedAdd ==
  input.calculation = StringTest1 =>
    /\ IsPrefix(Candidates, <<<<TextFooFlat, FALSE>>, <<TextFooL, FALSE>>,
                              <<TextFooPFlat, FALSE>>, <<TextFooPL, FALSE>>>>)
    /\ IterAtEnd(it) => Len(out) = 4
C3_Witness == input.calculation = StringTest1 /\ IterAtEnd(it) /\ Len(out) = 4

\* C4: foo = Tuple(1, 2, 3) renders to exactly "foo = 1, 2, 3;",
\* "foo = 1, 2, 3,;", "foo = (1, 2, 3);", "foo = (1, 2, 3,);", in this order,
\* and exactly the first two have the omitted-parens flag set.
C4_TupleOfThree ==
  input.calculation = StringTest2 =>
    /\ IsPrefix(Candidates, <<<<TextTuple, TRUE>>, <<TextTupleC, TRUE>>,
                              <<TextTupleP, FALSE>>, <<TextTuplePC, FALSE>>>>)
    /\ IterAtEnd(it) => Len(out) = 4
C4_Witness ==
  /\ input.calculation = StringTest2
  /\ IterAtEnd(it)
  /\ Len(out) = 4
  /\ out[2].tuple_parens_omitted


(***************************************************************************)
(* C11: exhaustiveness of the enumeration                                   *)
(***************************************************************************)
\* the trees of the claim up to nesting depth d: the depth-0 leaves and the
\* constructors applied to trees of smaller depth
ScopeLeaves(env) ==
  Depth0Leaves \cup {Expression(Ref(name)) : name \in env}
RECURSIVE TreesUpTo(_, _)
TreesUpTo(env, d) ==
  IF d = 0 THEN ScopeLeaves(env)
  ELSE LET sub == TreesUpTo(env, d - 1)
       IN sub \cup {Expression(TupleOf(<<x>>)) : x \in sub}
              \cup {Expression(AppendOf(<<x>>)) : x \in sub}
              \cup UNION {{Expression(Add(x, y)), Expression(Subtract(x, y)),
                           Expression(Multiply(x, y)), Expression(Divide(x, y)),
                           Expression(TupleOf(<<x, y>>)), Expression(AppendOf(<<x, y>>)),
                           Expression(TupleIdx(x, y))} : x \in sub, y \in sub}
\* the trees looked for among those of nesting depth at most d
ProbesUpTo(env, d) ==
  {t \in TreesUpTo(env, 1) \cup Depth2Probes : TreeDepth(t) <= d}

\* C11: when the depth loop over d in 0..bfs_depth has ended, every tree of
\* nesting depth at most bfs_depth built from the depth-0 leaves and the
\* constructors has been yielded by valid_expression(scope, d) for some d,
\* trees whose operands have different depths such as Add(0, Add(1, 0))
\* included.
C11_Exhaustive ==
  pc = "done" => ProbesUpTo(input.env, input.bfs_depth) \subseteq Range(out)


\* the texts calculation_strings yields for a Calculation
RenderedTexts(calculation) ==
  {CatToStr(d.str) : d \in Range(Traverse(calculation_strings(calculation)))}

\* a text without the line ends the writer puts after each statement
RECURSIVE WithoutLineEnds(_)
WithoutLineEnds(text) ==
  IF text = <<>> THEN <<>>
  ELSE (IF Head(text) = "\n" THEN <<>> ELSE <<Head(text)>>) \o WithoutLineEnds(Tail(text))

\* the candidate checked last is the text of the infix writer, and no
\* rendering of calculation_strings equals it, line ends apart
WriterDesync ==
  /\ check.done
  /\ ~check.writer_failed
  /\ check.rendered_str = write_infix(check.calculation).text
  /\ WithoutLineEnds(check.rendered_str) \notin RenderedTexts(check.calculation)

\* C12: desynchronization check.  When the text of the infix writer for a
\* generated Calculation is not textually identical to a rendering of
\* calculation_strings for that tree, the bfs_test run is aborted (it ends
\* with status 1): a run goes on or passes only while every writer text
\* equals a rendering of the test renderer.
C12_DesyncAborts == WriterDesync => status = "return 1"

\* the nodes of a tree: the node itself and the nodes below it
RECURSIVE NodesOf(_)
NodesOf(node) == {node} \cup UNION {NodesOf(node.kids[i]) : i \in 1..Len(node.kids)}

\* the loop body has run on a candidate up to the verdict
Checked == check.done /\ ~check.writer_failed /\ check.built

\* C13: expected-failure prediction.  For the (tree, candidate) pair the
\* driver has checked, expect_failure is true exactly when enable_tuples is
\* false and some node of the tree is a Tuple, an Append or a TupleIdx, or
\* tuples_require_parens is true and the candidate's tuple_parens_omitted
\* flag is set; it is false in every other case.
C13_ExpectFailure ==
  Checked =>
    (check.expect_failure <=>
       \/ /\ ~input.config.enable_tuples
          /\ \E n \in NodesOf(check.calculation) : n.type \in {"Tuple", "Append", "TupleIdx"}
       \/ /\ input.config.tuples_require_parens
          /\ check.tuple_parens_omitted)

\* a candidate that left out tuple parentheses has been checked with tuples
\* enabled and parentheses required
C13_Witness ==
  /\ Checked
  /\ check.expect_failure
  /\ input.config.enable_tuples
  /\ check.tuple_parens_omitted

\* the names a scope may hold, in lexicographic order
NamesInOrder == <<bar, foo>>

\* literal 0, literal 1, one Reference per name of the scope in
\* lexicographic order, the empty Tuple, the empty Append
Depth0Expected(env) ==
  LET InScope(name) == name \in env
      refs == SelectSeq(NamesInOrder, InScope)
  IN <<Expression(IntLit(<<"0">>)), Expression(IntLit(<<"1">>))>>
       \o [i \in 1..Len(refs) |-> Expression(Ref(refs[i]))]
       \o <<Expression(TupleOf(<<>>)), Expression(AppendOf(<<>>))>>

C21_Case == input.fn = "valid_expression" /\ input.depth = 0

\* C21: depth-0 enumeration order.  For any scope S, valid_expression(S, 0)
\* yields exactly 4 + |S| expressions in this order: literal 0, literal 1,
\* one Reference per name of S in lexicographic order, the empty Tuple, the
\* empty Append.
C21_Depth0Order ==
  C21_Case =>
    /\ IsPrefix(out, Depth0Expected(input.env))
    /\ IterAtEnd(it) =>
         (out = Depth0Expected(input.env) /\ Len(out) = 4 + Cardinality(input.env))

\* the stream of the scope {foo, bar} has been read to its end
C21_Witness ==
  C21_Case /\ input.env = {foo, bar} /\ IterAtEnd(it) /\ Len(out) = 6

\* the i-th expression of the enumeration over sub: blocks of 2 + 7n, one
\* per lhs, each Tuple(lhs), Append(lhs), then seven expressions per rhs
BinaryForms(lhs, rhs) ==
  <<Add(lhs, rhs), Subtract(lhs, rhs), Multiply(lhs, rhs), Divide(lhs, rhs),
    TupleOf(<<lhs, rhs>>), AppendOf(<<lhs, rhs>>), TupleIdx(lhs, rhs)>>

RecursiveExpectedAt(sub, i) ==
  LET block == 2 + 7 * Len(sub)
      lhs == sub[((i - 1) \div block) + 1]
      at == (i - 1) % block
      rhs == sub[((at - 2) \div 7) + 1]
  IN IF at = 0 THEN Expression(TupleOf(<<lhs>>))
     ELSE IF at = 1 THEN Expression(AppendOf(<<lhs>>))
     ELSE Expression(BinaryForms(lhs, rhs)[((at - 2) % 7) + 1])

C22_Case == input.fn = "valid_expression" /\ input.depth > 0

\* C22: recursive enumeration order.  For depth d > 0, with sub =
\* valid_expression(scope, d-1) of length n, valid_expression(scope, d)
\* yields exactly n * (2 + 7n) expressions: for each lhs of sub in order,
\* Tuple(lhs), Append(lhs), then for each rhs of a fresh traversal of sub in
\* order, Add, Subtract, Multiply, Divide, Tuple, Append and TupleIdx of
\* (lhs, rhs).
C22_RecursiveOrder ==
  C22_Case =>
    LET sub == Traverse(valid_expression(input.env, input.depth - 1))
        total == Len(sub) * (2 + 7 * Len(sub))
    IN /\ Len(out) <= total
       /\ \A i \in 1..Len(out) : out[i] = RecursiveExpectedAt(sub, i)
       /\ IterAtEnd(it) => Len(out) = total

\* the 120 expressions of depth 1 over the empty scope have been read
C22_Witness ==
  C22_Case /\ input.env = {} /\ input.depth = 1 /\ IterAtEnd(it) /\ Len(out) = 120

\* the objects that have object id among their kids
ParentsOf(id) == {p \in 1..Len(heap.nodes) : id \in Range(heap.nodes[p].kids)}

\* C23: no aliasing between emitted trees.  Every expression yielded by
\* valid_expression is built from fresh copies: no object is a child of two
\* different parents, and no object held as an element of the stream
\* sub_expr is a child of a node of an emitted expression.
C23_NoAliasing ==
  heap # NoHeap =>
    /\ \A id \in heap.held : ParentsOf(id) = {}
    /\ \A id \in 1..Len(heap.nodes) : Cardinality(ParentsOf(id)) <= 1

\* C25: tuple indexing in the maths pass either picks an existing element
\* or reports an error.  For a literal Tuple of size n and a literal Int i
\* the rule returns the i-th element when 0 <= i < n and the error "Tuple
\* index out of range" for every other i, i = n included; no element outside
\* 0..n-1 is read.
C25_IndexInRange ==
  pc = "done" /\ input \in [Lhs : MathsTuples, Rhs : MathsIdxs] =>
    LET i == get_int(input.Rhs)
        n == Len(input.Lhs.kids)
    IN IF 0 <= i /\ i < n
       THEN res = [k |-> "node", node |-> input.Lhs.kids[i + 1].kids[1]]
       ELSE res = MathsErr(input.Rhs, "Tuple index out of range")

C14_VerdictNotExpected ==
  Checked /\ ~check.expect_failure =>
    LET result == Read(check.rendered_str, input.config)
    IN /\ check.ok <=> (result.ok /\ result.node = check.calculation)
       /\ check.ok => ok_count = check.n + 1 /\ status # "return 1"
       /\ ~check.ok => ok_count = check.n /\ status = "return 1"

\* a candidate that was not expected to fail aborts the run
C14_Witness ==
  Checked /\ ~check.expect_failure /\ ~check.ok /\ status = "return 1"

\* the nesting depths at which the leaves of an Expression lie
RECURSIVE LeafDepths(_)
LeafDepths(expression) ==
  LET node == expression.kids[1]
  IN IF node.type \in {"Int", "Ref"} \/ node.kids = <<>> THEN {0}
     ELSE {1 + d : d \in UNION {LeafDepths(node.kids[i]) : i \in 1..Len(node.kids)}}

\* the operands of every node of an Expression have one nesting depth
RECURSIVE OperandsLevel(_)
OperandsLevel(expression) ==
  LET node == expression.kids[1]
  IN node.type \in {"Int", "Ref"} \/
       \A i \in 1..Len(node.kids) :
         /\ TreeDepth(node.kids[i]) = TreeDepth(node.kids[1])
         /\ OperandsLevel(node.kids[i])

\* the trees looked for among the elements a consumer reads from r in four
\* steps
ReadMore(s) == ReadMany(s[1], ReadChunk, s[2])
ReadFront(r) == ReadMore(ReadMore(ReadMore(ReadMany(r, ReadChunk, <<>>))))[2]

Counted(text, omitted) == [text |-> text, omitted |-> omitted]
CountedLit(text) == <<Counted(text, 0)>>

\* every rendering of as followed by every rendering of bs
CountedCat(as, bs) ==
  [k \in 1..(Len(as) * Len(bs)) |->
     Counted(as[((k - 1) \div Len(bs)) + 1].text \o bs[((k - 1) % Len(bs)) + 1].text,
             as[((k - 1) \div Len(bs)) + 1].omitted + bs[((k - 1) % Len(bs)) + 1].omitted)]

RECURSIVE CountedCats(_)
CountedCats(parts) ==
  IF parts = <<>> THEN CountedLit(<<>>)
  ELSE CountedCat(CountedCats(SubSeq(parts, 1, Len(parts) - 1)), parts[Len(parts)])

MayOmit(level, precedence) ==
  (level >= precedence.curr_precedence /\ precedence.allow_assoc)
    \/ (level > precedence.curr_precedence)

RECURSIVE CountedExpr(_, _)
RECURSIVE CountedKids(_, _, _)
\* the children separated by ", "
CountedKids(kids, n, precedence) ==
  IF n = 0 THEN CountedLit(<<>>)
  ELSE CountedCat(IF n = 1 THEN CountedLit(<<>>)
                  ELSE CountedCat(CountedKids(kids, n - 1, precedence),
                                  CountedLit(<<",", " ">>)),
                  CountedExpr(precedence, kids[n]))

\* the children with the trailing comma: mandatory below two children,
\* optional from two on
CountedList(kids, precedence) ==
  LET result == CountedKids(kids, Len(kids), precedence)
  IN IF Len(kids) < 2 THEN CountedCat(result, CountedLit(<<",">>))
     ELSE result \o CountedCat(result, CountedLit(<<",">>))

CountedBinop(expression, precedence) ==
  CountedCats(<<CountedExpr(with_assoc(precedence, TRUE), expression.kids[1]),
                CountedLit(<<" ">> \o expression.loc \o <<" ">>),
                CountedExpr(with_assoc(precedence, FALSE), expression.kids[2])>>)

CountedExpr(precedence, expression0) ==
  LET inner == expression0.kids[1]
      expression == IF inner.type = "Ref" THEN inner.kids[1] ELSE inner
      below == GroupPrecedence(TupleLevel, FALSE)
  IN CASE expression.type \in LeafTypes -> CountedLit(expression.loc)
       [] expression.type \in BinopTypes ->
            LET grouped == CountedCats(<<CountedLit(<<"(">>),
                                         CountedBinop(expression, DefaultGroupPrecedence),
                                         CountedLit(<<")">>)>>)
            IN IF MayOmit(BinopLevel(expression.type), precedence)
               THEN CountedBinop(expression,
                                 GroupPrecedence(BinopLevel(expression.type), FALSE))
                      \o grouped
               ELSE grouped
       [] expression.type = "Tuple" ->
            LET list == CountedList(expression.kids, below)
                parens == CountedCats(<<CountedLit(<<"(">>), list, CountedLit(<<")">>)>>)
            IN IF Len(expression.kids) > 1 /\ MayOmit(TupleLevel, precedence)
               THEN [i \in 1..Len(list) |-> Counted(list[i].text, list[i].omitted + 1)]
                      \o parens
               ELSE parens
       [] expression.type = "Append" ->
            CountedCats(<<CountedLit(<<"a", "p", "p", "e", "n", "d", "(">>),
                          CountedList(expression.kids, below), CountedLit(<<")">>)>>)
       [] OTHER -> CountedLit(UnknownText)

CountedAssign(assign) ==
  CountedCats(<<CountedLit(assign.kids[1].loc), CountedLit(<<" ", "=", " ">>),
                CountedExpr(DefaultGroupPrecedence, assign.kids[2]), CountedLit(<<";">>)>>)

RECURSIVE CountedCalc(_, _)
CountedCalc(kids, n) ==
  IF n = 0 THEN CountedLit(<<>>)
  ELSE CountedCat(CountedCalc(kids, n - 1), CountedAssign(kids[n]))

\* the candidates read agree, in order, with the counted renderings
AgreesWith(counted) ==
  /\ Len(out) <= Len(counted)
  /\ \A i \in 1..Len(out) :
       /\ CatToStr(out[i].str) = counted[i].text
       /\ out[i].tuple_parens_omitted <=> counted[i].omitted > 0

\* C27: meaning of the omitted-parens flag.  For every tree and every
\* candidate yielded for it, tuple_parens_omitted is true if and only if at
\* least one Tuple node with two or more children was rendered through the
\* parens-omitted branch in that candidate's string: the flag is the OR of
\* the flags of the pieces joined by CSData::concat and is never reset.
C27_OmittedFlag ==
  pc = "built" /\ (IterAtEnd(it) \/ Len(out) = MaxYield) =>
    AgreesWith(CountedCalc(input.calculation.kids, Len(input.calculation.kids)))

\* all candidates of a Calculation were read, with the flag set on some of
\* them and clear on others
C27_Witness ==
  /\ pc = "built"
  /\ IterAtEnd(it)
  /\ \E i, j \in 1..Len(out) : out[i].tuple_parens_omitted /\ ~out[j].tuple_parens_omitted
  /\ \E a \in Range(input.calculation.kids) : a.kids[2].kids[1].type \in BinopTypes

\* the expression of the only assignment of the Calculation rendered
RootExpression == input.calculation.kids[1].kids[2].kids[1]
RootIs(types) == Len(input.calculation.kids) = 1 /\ RootExpression.type \in types

\* the texts of the operator form of RootExpression with its operands
\* rendered in the context of the operator itself
OwnLevelTexts ==
  LET forms == Traverse(binopBody(RootExpression,
                                  GroupPrecedence(BinopLevel(RootExpression.type), FALSE)))
  IN [i \in 1..Len(forms) |-> CatToStr(forms[i].str)]

FooIs(text) == foo \o <<" ", "=", " ">> \o text \o <<";">>

\* C18: parenthesization rule of wrap_group.  A binary operator of
\* precedence p in context (c, assoc) has the unparenthesized form followed
\* by the parenthesized form when p > c or (p = c and assoc), and in both
\* forms an operand that binds looser than the operator, or equally on the
\* right side, is never rendered without its own parentheses: at the root,
\* where p > c, the candidates are the forms of the operator with such
\* operands parenthesized, first bare and then each between "(" and ")".
C18_WrapGroupRule ==
  RootIs(BinopTypes) /\ pc = "built" /\ IterAtEnd(it) =>
    [i \in 1..Len(out) |-> CatToStr(out[i].str)]
      = [i \in 1..Len(OwnLevelTexts) |-> FooIs(OwnLevelTexts[i])]
          \o [i \in 1..Len(OwnLevelTexts) |-> FooIs(<<"(">> \o OwnLevelTexts[i] \o <<")">>)]

\* C20: rendering an Append never sets the omitted-parens flag.  For a tree
\* whose root expression is an Append every candidate is of the form
\* "append(" ... ")" and has tuple_parens_omitted = false.
C20_AppendNoFlag ==
  RootIs({"Append"}) =>
    \A i \in 1..Len(out) :
      /\ ~out[i].tuple_parens_omitted
      /\ IsPrefix(foo \o <<" ", "=", " ", "a", "p", "p", "e", "n", "d", "(">>,
                  CatToStr(out[i].str))
      /\ SubSeq(CatToStr(out[i].str), Len(CatToStr(out[i].str)) - 1,
                Len(CatToStr(out[i].str))) = <<")", ";">>

\* the candidates of the only child of a Tuple, in the context of a tuple's
\* children
OnlyChildForms ==
  IF RootExpression.kids = <<>> THEN <<CSData(CatView(<<>>), FALSE)>>
  ELSE Traverse(expression_strings(GroupPrecedence(TupleLevel, FALSE),
                                   RootExpression.kids[1]))

\* C19: a Tuple with zero or one child is rendered with mandatory
\* parentheses and as a single form: "(,)" for the empty tuple and
\* "(" child ",)" for one child, one candidate per candidate of the child,
\* with nothing but the child's own flag.
C19_SmallTuple ==
  RootIs({"Tuple"}) /\ Len(RootExpression.kids) <= 1 =>
    /\ IsPrefix(Candidates,
                [i \in 1..Len(OnlyChildForms) |->
                   <<FooIs(<<"(">> \o CatToStr(OnlyChildForms[i].str) \o <<",", ")">>),
                     OnlyChildForms[i].tuple_parens_omitted>>])
    /\ IterAtEnd(it) => Len(out) = Len(OnlyChildForms)

\* the tree Tuple(0) has been rendered: one candidate, "foo = (0,);"
C19_Witness ==
  /\ RootIs({"Tuple"})
  /\ Len(RootExpression.kids) = 1
  /\ pc = "built" /\ IterAtEnd(it)
  /\ Candidates = <<<<FooIs(<<"(", "0", ",", ")">>), FALSE>>>>

\* one step of the driver after which the run goes on
DriverGoesOn ==
  /\ status = "running"
  /\ (it' # it /\ pc = "loop" =>
        /\ pc' = "loop"
        /\ check'.done /\ check'.ok /\ check'.calculation = IterDeref(it)[1]
        /\ ok_count' = ok_count + 1)
  /\ (curr_bfs_depth' # curr_bfs_depth /\ pc = "loop" => IterAtEnd(it))
  /\ (check' # check =>
        /\ pc = "loop" /\ IterNotEnd(it)
        /\ (~check'.ok => status' = "return 1" /\ it' = it /\ ok_count' = ok_count))
  /\ (status' = "return 0" =>
        /\ curr_bfs_depth > input.bfs_depth
        /\ (check.done => check.ok)
        /\ ok_count' = ok_count)

\* C15: fatal conditions halt the run.  Once the driver has detected a
\* violation on some candidate, nothing is rendered or parsed any more and
\* the status is non-zero; the cursor moves on only past a candidate that was
\* checked and accepted, the depth only at the end of the stream, and the
\* run ends with status 0 only after the last depth, with every candidate
\* checked having been accepted.
C15_FatalHalts ==
  [][IF status = "running" THEN DriverGoesOn ELSE UNCHANGED vars]_vars

\* the run has been aborted on a candidate, with candidates left unread
C15_Witness ==
  /\ status = "return 1"
  /\ pc = "exit"
  /\ check.done /\ ~check.ok
  /\ IterNotEnd(it)
  /\ curr_bfs_depth <= input.bfs_depth

\* the position in xs of the first element whose sub-stream is not empty
FirstFound(xs, f) ==
  CHOOSE k \in 1..Len(xs) : f[xs[k]] # <<>> /\ \A j \in 1..(k - 1) : f[xs[j]] = <<>>

\* the continuations of the input stream that were invoked while
\* s.flat_map(f) was built: the input elements that the stream held for the
\* remainder no longer yields
InputForced == Len(input.xs) - Len(Traverse(res.next.rhs_fn.current))

\* C16: flat_map laziness.  Building s.flat_map(f) applies f to the input
\* elements up to and including the first whose sub-stream is non-empty and
\* does not invoke the continuation of the input stream past that element:
\* only the continuations of the elements before it have been invoked.
C16_FlatMapLazy ==
  input.build = "flatMap" /\ pc = "built" /\ IsCell(res) =>
    InputForced = FirstFound(input.xs, input.f) - 1

\* the producer of the build concatSeq
Producer == [k |-> "seq", xs |-> input.f[1]]

\* a consumer that has read n elements is on an element of a, whose cell
\* still defers to the producer, or has just left a and holds what the
\* producer returned
ConcatReader(i, n) ==
  /\ n < Len(input.xs) =>
       /\ IsCell(i.result)
       /\ i.result.value = input.xs[n + 1]
       /\ i.result.next.k = "concatNext"
       /\ i.result.next.rhs_fn = Producer
  /\ n = Len(input.xs) => i.result = FromSeq(input.f[1])

\* C17: concat laziness.  For a non-empty first stream a.concat(producer)
\* does not invoke producer at construction nor while the consumer is still
\* on elements of a; producer is invoked when the consumer advances past the
\* last element of a, and at construction only when a is empty.
C17_ConcatLazy ==
  input.build = "concatSeq" /\ pc = "built" =>
    /\ input.xs = <<>> => res = FromSeq(input.f[1])
    /\ input.xs # <<>> => res.next.rhs_fn = Producer
    /\ it.live => ConcatReader(it, Len(out))
    /\ it2.live => ConcatReader(it2, Len(out2))

\* the consumer has advanced past the last element of a
C17_Witness ==
  /\ input.build = "concatSeq"
  /\ Len(input.xs) = MaxLen
  /\ input.f[1] # <<>>
  /\ it.live
  /\ Len(out) = Len(input.xs)
  /\ it.result = FromSeq(input.f[1])

====
